---- MODULE Spec2Model ----
(***************************************************************************)
(* Data pipeline of the electricity-theft-detection repository:            *)
(*   SGCCDataLoader              src/src/data/data_loader.py               *)
(*   ElectricityDataPreprocessor src/src/data/preprocessor.py              *)
(* Tables are sequences of rows (row i is the row at position i).          *)
(* Dates are day numbers, day 0 being 2014-01-01.  Floating point          *)
(* arithmetic is modelled by exact arithmetic on rationals <<n, d>>.       *)
(***************************************************************************)
EXTENDS Integers, Sequences, FiniteSets, TLC

VARIABLES
    df_raw,               \* the wide matrix handed to the loader
    load_result,          \* what the loader call returned (or that it raised)
    df,                   \* the long table handed to the preprocessor
    pre_result,           \* what the preprocessor call returned (or that it raised)
    preprocessing_stats,  \* ElectricityDataPreprocessor.preprocessing_stats
    labels,               \* the labels handed to the balancer, and what is installed
    balance_result,       \* what the last balancer call returned (or that it raised)
    previous_balance,     \* the latest earlier call with a random method
    table,                \* the table handed to the validator
    validation,           \* what the validator call returned
    feature_df,           \* the table handed to the feature engineer
    feature_result,       \* what the feature engineer call returned (or that it raised)
    batch                 \* the batch prediction request being served

\* the variables of the balancer, the validator, the feature engineer and
\* the prediction routes
other_vars == <<labels, balance_result, previous_balance, table, validation,
                feature_df, feature_result, batch>>

vars == <<df_raw, load_result, df, pre_result, preprocessing_stats, other_vars>>

(***************************************************************************)
(* Bounds of the model.                                                    *)
(***************************************************************************)
MaxEntities == 2    \* rows of the wide matrix
MaxDays == 3        \* date columns of the wide matrix
MaxBadCells == 1    \* cells of the wide matrix that are not plain numbers
MaxFirstDay == 1    \* day number of the first date column
MaxMeters == 2      \* meters of a long table
MaxTail == 2        \* readings a series ends with after its repeated baseline
MaxStep == 1        \* days between the last two readings of a series (0: a duplicate)
MaxThreshold == 3   \* z-score thresholds 1..MaxThreshold

(***************************************************************************)
(* Generic helpers on sequences.                                           *)
(***************************************************************************)
Range(s) == {s[i] : i \in DOMAIN s}

SetMin(S) == CHOOSE x \in S : \A y \in S : x <= y

(***************************************************************************)
(* SGCCDataLoader                                                          *)
(***************************************************************************)
NaT == -1              \* pd.NaT: no date
NaN == <<>>            \* a missing value; a number n/d is <<n, d>>
DefaultStartDate == 0  \* pd.to_datetime('2014-01-01')

CONS_NO == [kind |-> "CONS_NO"]
FLAG == [kind |-> "FLAG"]
meter_id_col == [kind |-> "meter_id"]
label_col == [kind |-> "label"]

\* A date header is text.  kind "mdy" is M/D/YYYY of day `day`, kind "iso" is
\* YYYY-MM-DD of day `day` (no slash), kind "bad" is text no parser accepts
\* (`day` only tells two corrupted headers apart).
Header(k, d) == [kind |-> k, day |-> d]
HeaderKinds == {"mdy", "iso", "bad"}

parse_date_column(date_str) ==
    IF date_str.kind = "mdy" THEN date_str.day        \* '/' in it, format %m/%d/%Y
    ELSE IF date_str.kind = "iso" THEN date_str.day   \* generic parser
    ELSE NaT                                          \* errors='coerce', except

\* A cell of the wide matrix: a number <<"num", x>>, text holding a number
\* <<"numstr", x>>, any other text <<"text">>, or an empty cell <<"empty">>.
to_numeric(cell) ==
    IF cell[1] \in {"num", "numstr"} THEN <<cell[2], 1>> ELSE NaN

\* df.rename(columns={'CONS_NO': 'meter_id', 'FLAG': 'label'})
rename(columns) ==
    [i \in DOMAIN columns |->
        IF columns[i] = CONS_NO THEN meter_id_col
        ELSE IF columns[i] = FLAG THEN label_col
        ELSE columns[i]]

ColIndex(columns, name) == CHOOSE i \in DOMAIN columns : columns[i] = name

\* pd.melt(df_work, id_vars=['meter_id','label'], value_vars=date_columns):
\* one row per (date column, entity), all rows of the first column first.
\* Raises KeyError when an id_var or a value_var is not a column.
melt_raises(work_columns, date_columns) ==
    \/ meter_id_col \notin Range(work_columns)
    \/ label_col \notin Range(work_columns)
    \/ \E c \in Range(date_columns) : c \notin Range(work_columns)

melt(work_columns, rows, date_columns) ==
    LET E == Len(rows)
        D == Len(date_columns)
        idc == ColIndex(work_columns, meter_id_col)
        lbc == ColIndex(work_columns, label_col)
    IN  [k \in 1..(E * D) |->
            LET c == ((k - 1) \div E) + 1
                r == ((k - 1) % E) + 1
            IN  [meter_id |-> rows[r][idc],
                 label |-> rows[r][lbc],
                 date |-> date_columns[c],
                 consumption |-> rows[r][ColIndex(work_columns, date_columns[c])],
                 src_col |-> c]]     \* history: the date column the row came from

\* lines 229-252: the repair of the dates that could not be parsed
date_mapping(parsed, date_columns) ==
    LET unique_dates == {parsed[k].date : k \in DOMAIN parsed} \ {NaT}
        start_date == IF unique_dates # {} THEN SetMin(unique_dates)
                      ELSE DefaultStartDate
        unmatched == {i \in DOMAIN date_columns :
                        ~ \E k \in DOMAIN parsed :
                            /\ parsed[k].date # NaT
                            /\ parsed[k].date = parse_date_column(date_columns[i])}
    IN  [col \in {date_columns[i] : i \in unmatched} |->
            start_date + ((CHOOSE i \in unmatched : date_columns[i] = col) - 1)]

\* line 250: the column a melted row is taken to come from (idx is 0-based)
original_col(idx, date_columns) == date_columns[(idx % Len(date_columns)) + 1]

fill_failed_dates(parsed, date_columns) ==
    IF \A k \in DOMAIN parsed : parsed[k].date # NaT THEN parsed
    ELSE LET mapping == date_mapping(parsed, date_columns)
         IN  [k \in DOMAIN parsed |->
                IF parsed[k].date = NaT
                   /\ original_col(k - 1, date_columns) \in DOMAIN mapping
                THEN [parsed[k] EXCEPT !.date = mapping[original_col(k - 1, date_columns)]]
                ELSE parsed[k]]

\* mutant of dropna: dropna() without subset, which also drops rows with no date
dropna_any_column(rows) ==
    SelectSeq(rows, LAMBDA r : r.consumption # NaN /\ r.date # NaT)

\* df_long.dropna(subset=['consumption'])
dropna(rows) == SelectSeq(rows, LAMBDA r : r.consumption # NaN)

\* sort_values(['meter_id', 'date']): NaT sorts last
DateLess(a, b) == IF a = NaT THEN FALSE ELSE IF b = NaT THEN TRUE ELSE a < b

MeterDateLess(x, y) ==
    \/ x.meter_id < y.meter_id
    \/ x.meter_id = y.meter_id /\ DateLess(x.date, y.date)

\* the rows of s in the order of their ranks 1..Len(s)
by_rank(s, ranks) == SubSeq([k \in DOMAIN s |-> s[CHOOSE i \in DOMAIN s : ranks[i] = k]],
                            1, Len(s))

\* the position of every row after a stable sort: behind the rows that are
\* smaller and the earlier rows that are not greater
row_ranks(s) ==
    SubSeq([i \in DOMAIN s |->
              1 + Cardinality({j \in DOMAIN s :
                                  \/ MeterDateLess(s[j], s[i])
                                  \/ j < i /\ ~MeterDateLess(s[i], s[j])})],
           1, Len(s))

\* df.sort_values(['meter_id', 'date']): a stable sort
sort_values(s) == by_rank(s, row_ranks(s))

\* lines 212-278: what follows the melt
parse_clean_sort(melted, date_columns) ==
    LET parsed == [k \in DOMAIN melted |->
                     [melted[k] EXCEPT !.date = parse_date_column(@)]]
        dated == fill_failed_dates(parsed, date_columns)
        numeric == [k \in DOMAIN dated |->
                      [dated[k] EXCEPT !.consumption = to_numeric(@)]]
    IN  sort_values(dropna(numeric))

\* mutant of convert_sgcc_wide_to_long: the failed melt is swallowed and an
\* empty table returned
convert_swallowing_errors(raw) ==
    LET date_columns == SubSeq(raw.columns, 1, Len(raw.columns) - 2)
        work_columns == rename(raw.columns)
    IN  IF melt_raises(work_columns, date_columns)
        THEN [status |-> "ok", df_long |-> <<>>]
        ELSE [status |-> "ok",
              df_long |-> parse_clean_sort(
                            melt(work_columns, raw.rows, date_columns), date_columns)]

convert_sgcc_wide_to_long(raw) ==
    LET date_columns == SubSeq(raw.columns, 1, Len(raw.columns) - 2)
        work_columns == rename(raw.columns)
    IN  IF melt_raises(work_columns, date_columns)
        THEN [status |-> "error"]
        ELSE [status |-> "ok",
              df_long |-> parse_clean_sort(
                            melt(work_columns, raw.rows, date_columns), date_columns)]

\* lines 87-91 of load_real_sgcc_data
load_real_sgcc_data_raises(raw) ==
    \/ CONS_NO \notin Range(raw.columns)
    \/ FLAG \notin Range(raw.columns)

\* _extract_date_range: first and last header parsed as %m/%d/%Y only
extract_date_range(raw) ==
    LET date_columns == SubSeq(raw.columns, 1, Len(raw.columns) - 2)
        mdy(h) == IF h.kind = "mdy" THEN h.day ELSE NaT
    IN  IF date_columns = <<>> THEN [start |-> "unknown", end |-> "unknown"]
        ELSE LET s == mdy(date_columns[1])
                 e == mdy(date_columns[Len(date_columns)])
             IN  IF s = NaT \/ e = NaT
                 THEN [start |-> date_columns[1], end |-> date_columns[Len(date_columns)]]
                 ELSE [start |-> s, end |-> e]

load_dataset(raw) ==
    IF load_real_sgcc_data_raises(raw) THEN [status |-> "error"]
    ELSE LET conv == convert_sgcc_wide_to_long(raw)
         IN  IF conv.status = "error" THEN conv
             ELSE [status |-> "ok",
                   df_long |-> conv.df_long,
                   metadata |-> [total_meters |-> Len(raw.rows),
                                 total_days |-> Len(raw.columns) - 2,
                                 total_records |-> Len(conv.df_long),
                                 date_range |-> extract_date_range(raw)]]

(***************************************************************************)
(* Wide matrices the loader is run on: chronological date columns whose    *)
(* headers are M/D/YYYY, ISO or corrupted, then CONS_NO and FLAG (either   *)
(* may be absent), one row per entity with entity ids 1..E.                *)
(***************************************************************************)
CellAt(r, c, bad, badkind) ==
    IF <<r, c>> \in bad THEN <<badkind>>
    ELSE IF (r + c) % 2 = 0 THEN <<"num", 10 * r + c>>
    ELSE <<"numstr", 10 * r + c>>

WideMatrix(E, kinds, first, bad, badkind, has_id, has_flag) ==
    LET D == Len(kinds)
        headers == [c \in 1..D |-> Header(kinds[c], first + c - 1)]
        idcols == (IF has_id THEN <<CONS_NO>> ELSE <<>>)
                  \o (IF has_flag THEN <<FLAG>> ELSE <<>>)
        idcell(r, j) == IF idcols[j] = CONS_NO THEN r ELSE r % 2
    IN  [columns |-> headers \o idcols,
         rows |-> [r \in 1..E |->
                    [c \in 1..D |-> CellAt(r, c, bad, badkind)]
                    \o [j \in 1..Len(idcols) |-> idcell(r, j)]]]

\* the cells that are not plain numbers: at most MaxBadCells of an E by D matrix
BadCells(E, D) == {B \in SUBSET ((1..E) \X (1..D)) : Cardinality(B) <= MaxBadCells}

NoCall == [op |-> "none"]

\* no labels, no table: the balancer, the validator and the feature engineer
\* are not in use
BalancerIdle == /\ labels = [zeros |-> 0, ones |-> 0]
                /\ balance_result = NoCall
                /\ previous_balance = NoCall

ValidatorIdle == table = <<>> /\ validation = NoCall

FeaturesIdle == feature_df = <<>> /\ feature_result = NoCall /\ batch = NoCall

LoaderIdle == /\ df_raw = [columns |-> <<>>, rows |-> <<>>]
              /\ load_result = NoCall

PreIdle == /\ df = <<>>
           /\ pre_result = NoCall
           /\ preprocessing_stats = [missing_values |-> <<>>, outliers |-> <<>>]

InitLoader ==
    /\ BalancerIdle /\ ValidatorIdle /\ FeaturesIdle
    /\ \E E \in 0..MaxEntities, D \in 1..MaxDays :
          \E kinds \in [1..D -> HeaderKinds], first \in 0..MaxFirstDay,
             bad \in BadCells(E, D), badkind \in {"text", "empty"},
             has_id \in BOOLEAN, has_flag \in BOOLEAN :
                df_raw = WideMatrix(E, kinds, first, bad, badkind, has_id, has_flag)
    /\ load_result = NoCall
    /\ PreIdle

\* loader.load_dataset(filename)
LoadDataset ==
    /\ load_result = NoCall
    /\ load_result' = [op |-> "load_dataset", ret |-> load_dataset(df_raw)]
    /\ UNCHANGED <<df_raw, df, pre_result, preprocessing_stats, other_vars>>

\* loader.convert_sgcc_wide_to_long(df_raw) called directly
ConvertDirect ==
    /\ load_result = NoCall
    /\ load_result' = [op |-> "convert_sgcc_wide_to_long",
                       ret |-> convert_sgcc_wide_to_long(df_raw)]
    /\ UNCHANGED <<df_raw, df, pre_result, preprocessing_stats, other_vars>>

NextLoader == LoadDataset \/ ConvertDirect

SpecLoader == InitLoader /\ [][NextLoader]_vars

(***************************************************************************)
(* Claims about the loader, checked under SpecLoader.                      *)
(***************************************************************************)
Loaded == load_result.op # "none" /\ load_result.ret.status = "ok"
LongTable == load_result.ret.df_long
DateColumns == SubSeq(df_raw.columns, 1, Len(df_raw.columns) - 2)
ParsedDays == {parse_date_column(DateColumns[c]) : c \in DOMAIN DateColumns} \ {NaT}
FailedColumns == {c \in DOMAIN DateColumns : parse_date_column(DateColumns[c]) = NaT}
NumericCells ==
    {<<r, c>> \in (DOMAIN df_raw.rows) \X (DOMAIN DateColumns) :
        df_raw.rows[r][c][1] \in {"num", "numstr"}}

\* C3: after the conversion every row that came from a date column whose
\* header failed to parse carries the date (minimum parsed date + the column's
\* positional index, in days), and no row is left with a null date.
C3_FailedHeaderGetsSyntheticDate ==
    Loaded =>
        \A k \in DOMAIN LongTable :
            /\ LongTable[k].date # NaT
            /\ (LongTable[k].src_col \in FailedColumns /\ ParsedDays # {})
                => LongTable[k].date = SetMin(ParsedDays) + LongTable[k].src_col - 1

\* C4: the long table has exactly entity_count x day_count rows minus the rows
\* whose consumption is not numeric after coercion: each numeric cell of the
\* matrix gives exactly one row, whether or not its header parsed.
C4_RowCountPreserved ==
    Loaded =>
        /\ Len(LongTable) = Len(df_raw.rows) * Len(DateColumns)
                            - (Len(df_raw.rows) * Len(DateColumns)
                               - Cardinality(NumericCells))
        /\ \A rc \in NumericCells :
              Cardinality({k \in DOMAIN LongTable :
                  LongTable[k].meter_id = rc[1] /\ LongTable[k].src_col = rc[2]}) = 1

\* witness of C4: two entities, a header that failed to parse, a cell that is
\* not numeric, and the table returned one row short of entities x days
C4_Witness ==
    /\ Loaded
    /\ Len(df_raw.rows) = 2
    /\ FailedColumns # {}
    /\ Cardinality(NumericCells) = 2 * Len(DateColumns) - 1
    /\ Len(LongTable) = 2 * Len(DateColumns) - 1

\* C5: with distinct entity identifiers and distinct date headers, whichever
\* headers fail to parse, no two rows of the long table share the same
\* (entity_id, date) pair.  (Rows left without any date are not counted as
\* sharing one.)
C5_EntityDateUnique ==
    Loaded =>
        \A j, k \in DOMAIN LongTable :
            (j # k /\ LongTable[j].date # NaT /\ LongTable[k].date # NaT)
                => <<LongTable[j].meter_id, LongTable[j].date>>
                   # <<LongTable[k].meter_id, LongTable[k].date>>

\* C6: loading a wide matrix that lacks the identifier column or the label
\* column ends in an error and returns neither a long table nor metadata,
\* through load_dataset and through a direct call of the conversion.
C6_MissingColumnIsAnError ==
    (load_result.op # "none"
     /\ (CONS_NO \notin Range(df_raw.columns) \/ FLAG \notin Range(df_raw.columns)))
        => /\ load_result.ret.status = "error"
           /\ DOMAIN load_result.ret = {"status"}

\* witness of C6: the direct call of the conversion on a matrix without FLAG
C6_Witness ==
    /\ load_result.op = "convert_sgcc_wide_to_long"
    /\ CONS_NO \in Range(df_raw.columns)
    /\ FLAG \notin Range(df_raw.columns)
    /\ Len(df_raw.rows) > 0
    /\ load_result.ret.status = "error"

(***************************************************************************)
(* Exact arithmetic.  A rational is <<n, d>> in lowest terms with d > 0.   *)
(* A capping bound mean + c * sqrt(v) is <<n, d, c, vn, vd>>: the rational *)
(* n/d plus the integer c times the square root of the rational vn/vd.     *)
(***************************************************************************)
Abs(x) == IF x < 0 THEN -x ELSE x

RECURSIVE GCD(_, _)
GCD(a, b) == IF b = 0 THEN a ELSE GCD(b, a % b)

\* n/d with g their greatest common divisor, in lowest terms, d > 0
Reduce(n, d, g) == IF d < 0 THEN <<(-n) \div g, (-d) \div g>> ELSE <<n \div g, d \div g>>

Rat(n, d) == Reduce(n, d, GCD(Abs(n), Abs(d)))

Num(x) == <<x, 1>>
\* a + b over the least common denominator, g the gcd of the denominators
AddOver(a, b, g) == Rat(a[1] * (b[2] \div g) + b[1] * (a[2] \div g), (a[2] \div g) * b[2])
RAdd(a, b) == AddOver(a, b, GCD(a[2], b[2]))
RSub(a, b) == RAdd(a, <<-b[1], b[2]>>)
RMul(a, b) == Rat(a[1] * b[1], a[2] * b[2])
RDiv(a, b) == Rat(a[1] * b[2], a[2] * b[1])
LessOver(a, b, g) == a[1] * (b[2] \div g) < b[1] * (a[2] \div g)
RLess(a, b) == LessOver(a, b, GCD(a[2], b[2]))
RMin(a, b) == IF RLess(b, a) THEN b ELSE a
RMax(a, b) == IF RLess(a, b) THEN b ELSE a

RECURSIVE RSumRange(_, _, _)
RSumRange(xs, lo, hi) ==
    IF lo > hi THEN Num(0)
    ELSE IF lo = hi THEN xs[lo]
    ELSE LET mid == (lo + hi) \div 2
         IN  RAdd(RSumRange(xs, lo, mid), RSumRange(xs, mid + 1, hi))

RSum(xs) == RSumRange(xs, 1, Len(xs))

RatPart(x) == <<x[1], x[2]>>
Coef(x) == IF Len(x) = 5 THEN x[3] ELSE 0
Radicand(x) == IF Len(x) = 5 THEN <<x[4], x[5]>> ELSE Num(0)
Surd(a, c, v) == IF c = 0 \/ v[1] = 0 THEN a ELSE <<a[1], a[2], c, v[1], v[2]>>

\* dd < k * sqrt(v), for rationals dd and v >= 0 and an integer k
LessSurd(dd, k, v) ==
    IF k = 0 \/ v[1] = 0 THEN dd[1] < 0
    ELSE IF k > 0 THEN dd[1] < 0 \/ dd[1] * dd[1] * v[2] < k * k * v[1] * dd[2] * dd[2]
    ELSE dd[1] < 0 /\ k * k * v[1] * dd[2] * dd[2] < dd[1] * dd[1] * v[2]

\* x < y for two reals that are rational or share their radicand
Less(x, y) ==
    LessSurd(RSub(RatPart(x), RatPart(y)), Coef(y) - Coef(x),
             IF Coef(x) # 0 THEN Radicand(x) ELSE Radicand(y))

Leq(x, y) == ~Less(y, x)
Min2(x, y) == IF Less(y, x) THEN y ELSE x
Max2(x, y) == IF Less(x, y) THEN y ELSE x

(***************************************************************************)
(* ElectricityDataPreprocessor.  A long table is a sequence of rows        *)
(* [meter_id, date, consumption]; consumption is NaN or a real.            *)
(***************************************************************************)
isnull(v) == v = NaN

\* df.copy(): the rows of a table, as a sequence of their own
copy(tbl) == SubSeq(tbl, 1, Len(tbl))

\* df['meter_id'].unique()
unique_meters(tbl) == {tbl[i].meter_id : i \in DOMAIN tbl}

\* df[df['meter_id'] == m]
MeterRows(tbl, m) == SelectSeq(tbl, LAMBDA r : r.meter_id = m)

Consumption(rows) == copy([i \in DOMAIN rows |-> rows[i].consumption])

\* the non-null consumption values of meter m, in table order
Values(tbl, m) ==
    Consumption(SelectSeq(tbl, LAMBDA r : r.meter_id = m /\ ~isnull(r.consumption)))

\* every non-null consumption value of the table
AllValues(tbl) == Consumption(SelectSeq(tbl, LAMBDA r : ~isnull(r.consumption)))

\* the position of every value in ascending order
value_ranks(xs) ==
    copy([i \in DOMAIN xs |->
            1 + Cardinality({j \in DOMAIN xs :
                                \/ RLess(xs[j], xs[i])
                                \/ j < i /\ ~RLess(xs[i], xs[j])})])

\* the values in ascending order
SortValues(xs) == by_rank(xs, value_ranks(xs))

\* Series.mean(): NaN when there is no value
mean(xs) == IF xs = <<>> THEN NaN ELSE RDiv(RSum(xs), Num(Len(xs)))

\* Series.quantile(q), q = qn/qd, linear interpolation between order statistics
quantile(xs, qn, qd) ==
    IF xs = <<>> THEN NaN
    ELSE LET srt == SortValues(xs)
             pos == (Len(xs) - 1) * qn      \* the position, times qd
             lo == pos \div qd
             fr == pos % qd
         IN  IF fr = 0 THEN srt[lo + 1]
             ELSE RAdd(srt[lo + 1],
                       RMul(Rat(fr, qd), RSub(srt[lo + 2], srt[lo + 1])))

\* Series.median()
median(xs) == quantile(xs, 1, 2)

\* dict-like Series.get(key, default)
Get(f, key, default) == IF key \in DOMAIN f THEN f[key] ELSE default

\* lines 56-59: per meter, in sorted order, linear interpolation between the
\* neighbouring values; leading and trailing gaps take the nearest value
interpolate(srt) ==
  copy(
    [i \in DOMAIN srt |->
        IF ~isnull(srt[i].consumption) THEN srt[i]
        ELSE LET known(j) == /\ srt[j].meter_id = srt[i].meter_id
                             /\ ~isnull(srt[j].consumption)
                 before == {j \in 1..(i - 1) : known(j)}
                 after == {j \in (i + 1)..Len(srt) : known(j)}
                 p == CHOOSE j \in before : \A h \in before : h <= j
                 n == CHOOSE j \in after : \A h \in after : j <= h
             IN  [srt[i] EXCEPT !.consumption =
                    IF before = {} /\ after = {} THEN NaN
                    ELSE IF before = {} THEN srt[n].consumption
                    ELSE IF after = {} THEN srt[p].consumption
                    ELSE RAdd(srt[p].consumption,
                              RMul(Rat(i - p, n - p),
                                   RSub(srt[n].consumption, srt[p].consumption)))]])

\* lines 62-65: per meter, in sorted order, ffill then bfill
ffill_bfill(srt) ==
  copy(
    [i \in DOMAIN srt |->
        IF ~isnull(srt[i].consumption) THEN srt[i]
        ELSE LET known(j) == /\ srt[j].meter_id = srt[i].meter_id
                             /\ ~isnull(srt[j].consumption)
                 before == {j \in 1..(i - 1) : known(j)}
                 after == {j \in (i + 1)..Len(srt) : known(j)}
                 p == CHOOSE j \in before : \A h \in before : h <= j
                 n == CHOOSE j \in after : \A h \in after : j <= h
             IN  [srt[i] EXCEPT !.consumption =
                    IF before # {} THEN srt[p].consumption
                    ELSE IF after # {} THEN srt[n].consumption
                    ELSE NaN]])

\* groupby('meter_id')['consumption'].mean() or .median()
statistic(method, xs) == IF method = "mean" THEN mean(xs) ELSE median(xs)

\* lines 69-75 (mean) and 79-85 (median): the per-meter statistic of every
\* meter, looked up with the global statistic as the default
fill_with(tbl, method) ==
    LET meter_stats == [m \in unique_meters(tbl) |-> statistic(method, Values(tbl, m))]
        global_stat == statistic(method, AllValues(tbl))
    IN  copy([i \in DOMAIN tbl |->
                IF isnull(tbl[i].consumption)
                THEN [tbl[i] EXCEPT !.consumption =
                        Get(meter_stats, tbl[i].meter_id, global_stat)]
                ELSE tbl[i]])

count_null(tbl) == Cardinality({i \in DOMAIN tbl : isnull(tbl[i].consumption)})

MissingMethods == {"linear", "forward_fill", "mean", "median"}

\* handle_missing_values(df, method): the table returned
impute(tbl, method) ==
    IF count_null(tbl) = 0 THEN tbl
    ELSE IF method = "linear" THEN interpolate(sort_values(tbl))
    ELSE IF method = "forward_fill" THEN ffill_bfill(sort_values(tbl))
    ELSE IF method \in {"mean", "median"} THEN fill_with(tbl, method)
    ELSE tbl

\* lines 87-95: final_missing and the statistics stored
missing_report(tbl, method, stats, out) ==
    [df |-> out,
     stats |-> IF count_null(tbl) = 0 THEN stats
               ELSE [stats EXCEPT !.missing_values =
                       <<[initial |-> count_null(tbl),
                          final |-> count_null(out),
                          method |-> method]>>]]

\* handle_missing_values(df, method): the table and preprocessing_stats
handle_missing_values(tbl, method, stats) ==
    missing_report(tbl, method, stats, impute(tbl, method))

(***************************************************************************)
(* detect_and_remove_outliers                                              *)
(***************************************************************************)
MinOutlierPoints == 10     \* len(meter_data) > 10
MinForestPoints == 20      \* len(meter_data) > 20
DefaultThreshold == 3      \* threshold: float = 3.0

\* sum of the squared deviations of xs from mu
SumSqDev(xs, mu) ==
    RSum([i \in DOMAIN xs |-> RMul(RSub(xs[i], mu), RSub(xs[i], mu))])

\* np.abs(stats.zscore(x)) > threshold for a value x of a series with mean mu
\* and population variance var0 (ddof=0); a zero deviation gives NaN scores,
\* which exceed nothing
zscore_outlier(x, mu, var0, T) ==
    RLess(RMul(Num(T * T), var0), RMul(RSub(x, mu), RSub(x, mu)))

\* lines 137-140: mean_val -/+ threshold * std_val, std_val the sample
\* deviation (ddof=1), whose square is var1
zscore_bounds(mu, var1, T) ==
    [lower |-> Surd(mu, -T, var1), upper |-> Surd(mu, T, var1)]

\* pandas orders two scalar bounds before it clips:
\* lower, upper = min(lower, upper), max(lower, upper)
ordered(lower, upper) == [lower |-> Min2(lower, upper), upper |-> Max2(lower, upper)]

\* mutant of clip_bounds: the floor max(0, lower_bound) forgotten
clip_bounds_no_floor(b) == ordered(b.lower, b.upper)

\* Series.clip(lower=max(0, lower_bound), upper=upper_bound)
clip_bounds(b) == ordered(Max2(Num(0), b.lower), b.upper)

\* mutant of clip: the upper bound is not applied
clip_lower_only(v, b) ==
    IF isnull(v) THEN v
    ELSE IF Less(v, b.lower) THEN b.lower
    ELSE v

clip(v, b) ==
    IF isnull(v) THEN v
    ELSE IF Less(v, b.lower) THEN b.lower
    ELSE IF Less(b.upper, v) THEN b.upper
    ELSE v

\* mutant of clip_meter: the readings outside the bounds are removed, not capped
clip_meter_dropping(tbl, m, b) ==
    SelectSeq(tbl, LAMBDA r : \/ r.meter_id # m
                              \/ isnull(r.consumption)
                              \/ (~Less(r.consumption, b.lower) /\ ~Less(b.upper, r.consumption)))

\* df.loc[df['meter_id'] == m, 'consumption'] = ....clip(lower, upper)
clip_meter(tbl, m, b) ==
    copy([i \in DOMAIN tbl |->
            IF tbl[i].meter_id = m THEN [tbl[i] EXCEPT !.consumption = clip(@, b)]
            ELSE tbl[i]])

\* count, mean and sum of squared deviations of a meter's values
describe(xs) == [count |-> Len(xs), mean |-> mean(xs), ssd |-> SumSqDev(xs, mean(xs))]

\* lines 132-133: the positions of xs with |z| > threshold
zscore_mask(xs, st, T) ==
    {i \in DOMAIN xs :
        zscore_outlier(xs[i], st.mean, RDiv(st.ssd, Num(st.count)), T)}

\* lines 135-146: the meter is clipped when it has a flagged value
zscore_clip(acc, m, zb, outlier_mask) ==
    IF outlier_mask # {}
    THEN [df |-> clip_meter(acc.df, m, clip_bounds(zb)),
          outliers_removed |-> acc.outliers_removed + Cardinality(outlier_mask)]
    ELSE acc

\* lines 129-146 for the values xs of a meter with more than 10 rows
zscore_values(acc, m, T, xs, st) ==
    IF xs = <<>> THEN acc
    ELSE zscore_clip(acc, m,
                     zscore_bounds(st.mean, RDiv(st.ssd, Num(st.count - 1)), T),
                     zscore_mask(xs, st, T))

\* lines 128-148: one turn of the loop over the meters
zscore_meter(acc, m, T) ==
    IF Len(MeterRows(acc.df, m)) > MinOutlierPoints
    THEN zscore_values(acc, m, T, Values(acc.df, m), describe(Values(acc.df, m)))
    ELSE acc

RECURSIVE zscore_loop(_, _, _)
zscore_loop(acc, meters, T) ==
    IF meters = {} THEN acc
    ELSE LET m == CHOOSE x \in meters : TRUE
         IN  zscore_loop(zscore_meter(acc, m, T), meters \ {m}, T)

\* lines 159-161
fences(Q1, Q3) ==
    [lower |-> RSub(Q1, RMul(Rat(3, 2), RSub(Q3, Q1))),
     upper |-> RAdd(Q3, RMul(Rat(3, 2), RSub(Q3, Q1)))]

\* lines 156-161
iqr_bounds(xs) == fences(quantile(xs, 1, 4), quantile(xs, 3, 4))

\* lines 163-170: a meter with more than 10 rows is always clipped
iqr_clip(acc, m, xs, raw) ==
    [df |-> clip_meter(acc.df, m, clip_bounds(raw)),
     outliers_removed |->
        acc.outliers_removed
          + Cardinality({i \in DOMAIN xs :
                            Less(xs[i], raw.lower) \/ Less(raw.upper, xs[i])})]

\* lines 153-172: one turn of the loop; with no value at all the bounds are
\* NaN and nothing changes
iqr_values(acc, m, xs) == IF xs = <<>> THEN acc ELSE iqr_clip(acc, m, xs, iqr_bounds(xs))

iqr_meter(acc, m) ==
    IF Len(MeterRows(acc.df, m)) > MinOutlierPoints
    THEN iqr_values(acc, m, Values(acc.df, m))
    ELSE acc

RECURSIVE iqr_loop(_, _)
iqr_loop(acc, meters) ==
    IF meters = {} THEN acc
    ELSE LET m == CHOOSE x \in meters : TRUE
         IN  iqr_loop(iqr_meter(acc, m), meters \ {m})

\* lines 178-193.  IsolationForest(contamination=0.1, random_state=42) is a
\* fixed function of the meter's values that the model does not compute: equal
\* values get equal labels, and the rows scored below the 10th percentile are
\* at most ceil((n - 1) / 10).  `anomalous` is the set of values labelled -1.
forest_meters(tbl) ==
    {m \in unique_meters(tbl) : Len(MeterRows(tbl, m)) > MinForestPoints}

forest_values(tbl) ==
    LET big == forest_meters(tbl)
    IN  {tbl[i].consumption : i \in {j \in DOMAIN tbl : tbl[j].meter_id \in big}}

forest_labels_possible(tbl, anomalous) ==
    /\ anomalous \subseteq forest_values(tbl)
    /\ \A m \in forest_meters(tbl) :
          LET rows == MeterRows(tbl, m)
          IN  Cardinality({j \in DOMAIN rows : rows[j].consumption \in anomalous})
                  <= (Len(rows) + 8) \div 10

\* fit_predict on values that hold a NaN: raises or not with the scikit-learn installed
forest_sees_nan(tbl) == NaN \in forest_values(tbl)

\* lines 186-191: the rows labelled -1 take the meter's median
forest_replace(acc, outlier_indices, median_val) ==
    [df |-> copy([i \in DOMAIN acc.df |->
                    IF i \in outlier_indices
                    THEN [acc.df[i] EXCEPT !.consumption = median_val]
                    ELSE acc.df[i]]),
     outliers_removed |-> acc.outliers_removed + Cardinality(outlier_indices)]

forest_meter(acc, m, anomalous) ==
    IF Len(MeterRows(acc.df, m)) > MinForestPoints
    THEN forest_replace(acc,
                        {i \in DOMAIN acc.df : /\ acc.df[i].meter_id = m
                                               /\ acc.df[i].consumption \in anomalous},
                        median(Values(acc.df, m)))
    ELSE acc

RECURSIVE forest_loop(_, _, _)
forest_loop(acc, meters, anomalous) ==
    IF meters = {} THEN acc
    ELSE LET m == CHOOSE x \in meters : TRUE
         IN  forest_loop(forest_meter(acc, m, anomalous), meters \ {m}, anomalous)

OutlierMethods == {"zscore", "iqr", "isolation_forest"}

\* What the isolation forest does on a call: forest is [raises, anomalous].
NoForest == [raises |-> FALSE, anomalous |-> {}]

\* lines 195-207: the statistics stored and the table returned
outliers_report(tbl, method, T, stats, capd) ==
    IF Len(tbl) = 0 THEN [status |-> "error"]     \* outliers_removed / initial_count
    ELSE [status |-> "ok",
          df |-> capd.df,
          stats |-> [stats EXCEPT !.outliers =
                       <<[method |-> method,
                          threshold |-> T,
                          outliers_processed |-> capd.outliers_removed,
                          outlier_rate |-> Rat(capd.outliers_removed, Len(tbl))]>>]]

\* lines 125-193: the loop over the meters of the chosen method
cap_outliers(acc, meters, method, T, forest) ==
    IF method = "zscore" THEN zscore_loop(acc, meters, T)
    ELSE IF method = "iqr" THEN iqr_loop(acc, meters)
    ELSE IF method = "isolation_forest" THEN forest_loop(acc, meters, forest.anomalous)
    ELSE acc

\* detect_and_remove_outliers(df, method, threshold)
detect_and_remove_outliers(tbl, method, T, forest, stats) ==
    IF method = "isolation_forest" /\ forest.raises THEN [status |-> "error"]
    ELSE outliers_report(tbl, method, T, stats,
                         cap_outliers([df |-> tbl, outliers_removed |-> 0],
                                      unique_meters(tbl), method, T, forest))

(***************************************************************************)
(* validate_data_quality and the quality score                             *)
(***************************************************************************)
min_days == 30

\* _check_insufficient_data
check_insufficient_data(tbl) ==
    Cardinality({m \in unique_meters(tbl) : Len(MeterRows(tbl, m)) < min_days})

\* df.duplicated(['meter_id', 'date']).sum(): rows repeating an earlier key
duplicated(tbl) ==
    Cardinality({i \in DOMAIN tbl :
        \E j \in 1..(i - 1) : /\ tbl[j].meter_id = tbl[i].meter_id
                              /\ tbl[j].date = tbl[i].date})

\* lines 344-346: the steps of more than one day between consecutive dates
steps_over_a_day(srt) ==
    Cardinality({j \in 2..Len(srt) : srt[j].date - srt[j - 1].date > 1})

\* lines 340-347: the gaps of meter m, its rows sorted by date
date_gaps(tbl, m) == steps_over_a_day(sort_values(MeterRows(tbl, m)))

RECURSIVE total_gaps(_, _)
total_gaps(tbl, meters) ==
    IF meters = {} THEN 0
    ELSE LET m == CHOOSE x \in meters : TRUE
         IN  date_gaps(tbl, m) + total_gaps(tbl, meters \ {m})

\* _check_date_gaps, for at most 1000 meters (no sampling)
check_date_gaps(tbl) ==
    [meters_with_gaps |->
        Cardinality({m \in unique_meters(tbl) : date_gaps(tbl, m) > 0}),
     total_gaps |-> total_gaps(tbl, unique_meters(tbl))]

\* (k / n) * 100
percentage(k, n) == Rat(100 * k, n)

\* score -= min(rate, most)
deduct(score, rate, most) == RSub(score, RMin(rate, Num(most)))

\* mutant of calculate_quality_score: the negative rate is not doubled
calculate_quality_score_plain_negative(quality_report) ==
    RMax(Num(0),
      deduct(
        deduct(
          deduct(
            deduct(Num(100), quality_report.missing_data.missing_percentage, 30),
            percentage(quality_report.consumption_quality.negative_values,
                       quality_report.total_records), 20),
          RMul(percentage(quality_report.duplicates, quality_report.total_records),
               Num(5)), 15),
        percentage(quality_report.data_consistency.meters_with_insufficient_data,
                   quality_report.unique_meters), 10))

\* _calculate_quality_score
calculate_quality_score(quality_report) ==
    RMax(Num(0),
      deduct(
        deduct(
          deduct(
            deduct(Num(100), quality_report.missing_data.missing_percentage, 30),
            RMul(percentage(quality_report.consumption_quality.negative_values,
                            quality_report.total_records), Num(2)), 20),
          RMul(percentage(quality_report.duplicates, quality_report.total_records),
               Num(5)), 15),
        percentage(quality_report.data_consistency.meters_with_insufficient_data,
                   quality_report.unique_meters), 10))

\* lines 277-308: the report before its score (without data_types and
\* extremely_high)
quality_report(tbl) ==
    [total_records |-> Len(tbl),
     unique_meters |-> Cardinality(unique_meters(tbl)),
     date_range |-> [start |-> SetMin({tbl[i].date : i \in DOMAIN tbl}),
                     end |-> -SetMin({-tbl[i].date : i \in DOMAIN tbl}),
                     days |-> Cardinality({tbl[i].date : i \in DOMAIN tbl})],
     missing_data |-> [consumption_missing |-> count_null(tbl),
                       missing_percentage |-> Rat(100 * count_null(tbl), Len(tbl))],
     consumption_quality |->
       [negative_values |->
          Cardinality({i \in DOMAIN tbl :
              ~isnull(tbl[i].consumption) /\ Less(tbl[i].consumption, Num(0))}),
        zero_values |->
          Cardinality({i \in DOMAIN tbl :
              /\ ~isnull(tbl[i].consumption)
              /\ ~Less(tbl[i].consumption, Num(0))
              /\ ~Less(Num(0), tbl[i].consumption)})],
     duplicates |-> duplicated(tbl),
     data_consistency |->
       [meters_with_insufficient_data |-> check_insufficient_data(tbl),
        date_gaps |-> check_date_gaps(tbl)]]

\* lines 311-312: quality_report['overall_quality_score'] = ...
with_score(report) ==
    [q \in DOMAIN report \cup {"overall_quality_score"} |->
        IF q = "overall_quality_score" THEN calculate_quality_score(report)
        ELSE report[q]]

\* validate_data_quality
validate_data_quality(tbl) == with_score(quality_report(tbl))

(***************************************************************************)
(* preprocess_pipeline                                                     *)
(***************************************************************************)
\* lines 411-420: the preprocessing report
preprocessing_report(initial_quality, final_quality, stats) ==
    [initial_quality |-> initial_quality,
     final_quality |-> final_quality,
     processing_steps |-> stats,
     improvement |->
       [quality_score_improvement |->
          RSub(final_quality.overall_quality_score,
               initial_quality.overall_quality_score),
        missing_data_reduction |->
          RSub(initial_quality.missing_data.missing_percentage,
               final_quality.missing_data.missing_percentage)]]

\* mutant of pipeline_finish: the final quality check runs before step 2
pipeline_finish_checked_before_capping(initial_quality, imputed, capped) ==
    IF capped.status = "error" THEN [status |-> "error", stats |-> imputed.stats]
    ELSE [status |-> "ok",
          df |-> capped.df,
          stats |-> capped.stats,
          report |-> preprocessing_report(initial_quality,
                                          validate_data_quality(imputed.df),
                                          capped.stats)]

\* lines 407-424, after step 2 returned `capped`
pipeline_finish(initial_quality, imputed, capped) ==
    IF capped.status = "error" THEN [status |-> "error", stats |-> imputed.stats]
    ELSE [status |-> "ok",
          df |-> capped.df,
          stats |-> capped.stats,
          report |-> preprocessing_report(initial_quality,
                                          validate_data_quality(capped.df),
                                          capped.stats)]

\* lines 401-424, after step 1 returned `imputed`
pipeline_outliers(initial_quality, imputed, outlier_method, forest) ==
    pipeline_finish(initial_quality, imputed,
                    detect_and_remove_outliers(imputed.df, outlier_method,
                                               DefaultThreshold, forest, imputed.stats))

preprocess_pipeline(tbl, missing_method, outlier_method, forest, stats) ==
    pipeline_outliers(validate_data_quality(tbl),
                      handle_missing_values(tbl, missing_method, stats),
                      outlier_method, forest)

(***************************************************************************)
(* Long tables the preprocessor is run on.  The series of meter 1 is a     *)
(* baseline reading repeated (not at all, up to the outlier threshold, up  *)
(* to the minimum history) followed by up to MaxTail readings that may be  *)
(* missing, negative or a spike; the other meters have a short series.     *)
(* Rows arrive meter by meter, the highest meter id first.                 *)
(***************************************************************************)
Baselines == {<<0, 1>>, <<MinOutlierPoints - 1, 1>>, <<MinOutlierPoints - 1, -9>>,
              <<min_days - 2, 1>>}
TailValues == {NaN, Num(-1), Num(9)}
CompanionSeries == {<<NaN, NaN>>, <<Num(8), NaN, Num(2)>>}

Tails == UNION {[1..n -> TailValues] : n \in 0..MaxTail}

\* the rows of meter m: consecutive days, the last one `step` days after the one before
SeriesRows(m, xs, step) ==
    [i \in DOMAIN xs |->
        [meter_id |-> m,
         date |-> IF i = Len(xs) /\ i > 1 THEN (i - 2) + step ELSE i - 1,
         consumption |-> xs[i]]]

\* the series of meter 1: a baseline of the family, then a tail
SubjectSeries(baselines) ==
    {[k \in 1..bl[1] |-> Num(bl[2])] \o tail : bl \in baselines, tail \in Tails}

RECURSIVE Concat(_, _)
\* the rows of the meters n, n-1, ..., 1
Concat(series, n) == IF n = 0 THEN <<>> ELSE series[n] \o Concat(series, n - 1)

\* the table of meters M, ..., 1
Table(M, subject, step, companions) ==
    Concat([m \in 1..M |-> IF m = 1 THEN SeriesRows(1, subject, step)
                           ELSE SeriesRows(m, companions[m], 1)], M)

Thresholds == 1..MaxThreshold

\* a fresh preprocessor and a non-empty table whose meter 1 has a series of the family
InitTable(baselines) ==
    /\ LoaderIdle
    /\ BalancerIdle /\ ValidatorIdle /\ FeaturesIdle
    /\ \E M \in 1..MaxMeters, subject \in SubjectSeries(baselines), step \in 0..MaxStep :
          \E companions \in [2..M -> CompanionSeries] :
              /\ df = Table(M, subject, step, companions)
              /\ df # <<>>
    /\ pre_result = NoCall
    /\ preprocessing_stats = [missing_values |-> <<>>, outliers |-> <<>>]

InitPre == InitTable(Baselines)

\* the call returned r: the value handed back and the statistics kept
Returned(call, r) ==
    /\ pre_result' = [c \in DOMAIN call \cup {"ret"} |->
                         IF c = "ret"
                         THEN [f \in DOMAIN r \ {"stats"} |-> r[f]]
                         ELSE call[c]]
    /\ preprocessing_stats' = IF "stats" \in DOMAIN r THEN r.stats
                              ELSE preprocessing_stats

\* preprocessor.handle_missing_values(df, method)
HandleMissingValues(method) ==
    /\ pre_result = NoCall
    /\ Returned([op |-> "handle_missing_values", method |-> method],
                [status |-> "ok"] @@ handle_missing_values(df, method, preprocessing_stats))
    /\ UNCHANGED <<df_raw, load_result, df, other_vars>>

\* preprocessor.detect_and_remove_outliers(df, method, threshold)
DetectAndRemoveOutliers(method, T, forest) ==
    /\ pre_result = NoCall
    /\ Returned([op |-> "detect_and_remove_outliers", method |-> method, threshold |-> T],
                detect_and_remove_outliers(df, method, T, forest, preprocessing_stats))
    /\ UNCHANGED <<df_raw, load_result, df, other_vars>>

\* the outcomes of the isolation forest on table tbl
Forests(tbl) ==
    {[raises |-> FALSE, anomalous |-> A] :
        A \in {B \in SUBSET forest_values(tbl) : forest_labels_possible(tbl, B)}}
    \cup (IF forest_sees_nan(tbl) THEN {[raises |-> TRUE, anomalous |-> {}]} ELSE {})

\* preprocessor.validate_data_quality(df)
ValidateDataQuality ==
    /\ pre_result = NoCall
    /\ Returned([op |-> "validate_data_quality"],
                [status |-> "ok", report |-> validate_data_quality(df)])
    /\ UNCHANGED <<df_raw, load_result, df, other_vars>>

\* preprocessor.preprocess_pipeline(df, missing_method, outlier_method)
PreprocessPipeline(missing_method, outlier_method, forest) ==
    /\ pre_result = NoCall
    /\ Returned([op |-> "preprocess_pipeline", missing_method |-> missing_method,
                 outlier_method |-> outlier_method],
                preprocess_pipeline(df, missing_method, outlier_method, forest,
                                    preprocessing_stats))
    /\ UNCHANGED <<df_raw, load_result, df, other_vars>>

\* detect_and_remove_outliers(df, 'isolation_forest'), whatever the forest labels
DetectWithForest ==
    /\ pre_result = NoCall
    /\ \E forest \in Forests(df) :
          DetectAndRemoveOutliers("isolation_forest", DefaultThreshold, forest)

NextPre ==
    \/ \E method \in MissingMethods : HandleMissingValues(method)
    \/ \E T \in Thresholds : DetectAndRemoveOutliers("zscore", T, NoForest)
    \/ DetectAndRemoveOutliers("iqr", DefaultThreshold, NoForest)
    \/ DetectWithForest
    \/ ValidateDataQuality

SpecPre == InitPre /\ [][NextPre]_vars

\* preprocess_pipeline(df, missing_method, 'isolation_forest'), whatever the
\* forest labels on the imputed table
PipelineWithForest(missing_method) ==
    /\ pre_result = NoCall
    /\ \E forest \in Forests(impute(df, missing_method)) :
          PreprocessPipeline(missing_method, "isolation_forest", forest)

NextPipeline ==
    \/ \E mm \in MissingMethods, om \in {"zscore", "iqr"} :
          PreprocessPipeline(mm, om, NoForest)
    \/ \E mm \in MissingMethods : PipelineWithForest(mm)

\* the pipeline runs on series around the sizes its two steps look at
\* and, between the two, on one long enough for two negative readings to
\* stay under the cap of their deduction
PipelineBaselines == {<<0, 1>>, <<MinOutlierPoints - 1, 1>>, <<MinForestPoints - 4, 1>>,
                      <<MinForestPoints - 1, 1>>}

InitPipeline == InitTable(PipelineBaselines)

SpecPipeline == InitPipeline /\ [][NextPipeline]_vars

(***************************************************************************)
(* ClassBalancer.  Labels are the number of rows of class 0 (the majority  *)
(* of the code) and of class 1 (its minority); the feature matrix X        *)
(* follows the labels row by row.  With the labels come the facts about    *)
(* what is installed: whether imbalanced-learn can be imported, and        *)
(* whether sklearn's resample refuses n_samples = 0.                       *)
(***************************************************************************)
MaxClassCount == 6    \* rows of one class

SyntheticMethods == {"adasyn", "smote", "borderline_smote", "svm_smote",
                     "smote_tomek", "smote_enn"}
RandomMethods == {"random_over", "random_under"}

\* the target ratios the model calls with: 0.25, 0.5 and 0.6
Ratios == {<<1, 4>>, <<1, 2>>, <<3, 5>>}
\* random_oversample(X, y): target_ratio = 0.5; balance_dataset: target_ratio = 0.3
OversampleDefaultRatio == <<1, 2>>
BalanceDefaultRatio == <<3, 10>>

\* y.value_counts() and the statistics of it; max() of no count raises
analyze_class_distribution(counts) ==
    IF counts.zeros + counts.ones = 0 THEN [status |-> "error"]
    ELSE LET present == {counts.zeros, counts.ones} \ {0}
         IN  [status |-> "ok",
              total_samples |-> counts.zeros + counts.ones,
              class_counts |-> counts,
              imbalance_ratio |-> Rat(-SetMin({-c : c \in present}), SetMin(present))]

\* mutant of target_minority_size: the ratio is not turned into odds
target_minority_size_plain_ratio(total_majority, target_ratio) ==
    (total_majority * target_ratio[1]) \div target_ratio[2]

\* int(total_majority * target_ratio / (1 - target_ratio)).  The quotient is a
\* binary64 float: for target_ratio 0.6 the value of M * 0.6 / 0.4 falls just
\* below the whole number M * 3 / 2 when M is 2, 4, 6, 8, 12, 16, 18 or 22 (of
\* the M below 24), and int() then gives one less; 0.25 and 0.5 are exact.
target_minority_size(total_majority, target_ratio) ==
    IF target_ratio = <<3, 5>> /\ total_majority \in {2, 4, 6, 8, 12, 16, 18, 22}
    THEN (total_majority * 3) \div 2 - 1
    ELSE (total_majority * target_ratio[1]) \div (target_ratio[2] - target_ratio[1])

\* mutant of target_majority_size: the odds the wrong way round
target_majority_size_inverted(total_minority, target_ratio) ==
    (total_minority * target_ratio[1]) \div (target_ratio[2] - target_ratio[1])

\* int(total_minority * (1 - target_ratio) / target_ratio): exact for the
\* ratios 0.25, 0.5 and 0.6 and the counts below 24
target_majority_size(total_minority, target_ratio) ==
    (total_minority * (target_ratio[2] - target_ratio[1])) \div target_ratio[1]

\* sklearn.utils.resample(rows, replace, n_samples): raises when there is no
\* row to draw from, when more rows are asked than there are without
\* replacement, and, with the versions that validate it, when n_samples is 0
resample_raises(rows, replace, n_samples, strict) ==
    \/ n_samples > 0 /\ rows = 0
    \/ n_samples > rows /\ ~replace
    \/ n_samples = 0 /\ strict

random_oversample(lab, target_ratio) ==
    IF resample_raises(lab.ones, TRUE, target_minority_size(lab.zeros, target_ratio),
                       lab.strict_resample)
    THEN [status |-> "error"]
    ELSE [status |-> "ok",
          y_balanced |-> [zeros |-> lab.zeros,
                          ones |-> target_minority_size(lab.zeros, target_ratio)],
          balancing_method |-> "random_oversample"]

random_undersample(lab, target_ratio) ==
    IF resample_raises(lab.zeros, FALSE,
                       Min2(Num(target_majority_size(lab.ones, target_ratio)),
                            Num(lab.zeros))[1],
                       lab.strict_resample)
    THEN [status |-> "error"]
    ELSE [status |-> "ok",
          y_balanced |-> [zeros |-> Min2(Num(target_majority_size(lab.ones, target_ratio)),
                                         Num(lab.zeros))[1],
                          ones |-> lab.ones],
          balancing_method |-> "random_undersample"]

\* k_neighbors of the sampler: 3 where the code sets it, imbalanced-learn's
\* default 5 for SMOTETomek and SMOTEENN
k_neighbors(method) == IF method \in {"smote_tomek", "smote_enn"} THEN 5 ELSE 3

\* fit_resample cannot work: one class only, or a smaller class with fewer
\* than k_neighbors + 1 rows to grow
sampler_must_fail(lab, method) ==
    \/ lab.zeros = 0
    \/ lab.ones = 0
    \/ /\ lab.zeros # lab.ones
       /\ SetMin({lab.zeros, lab.ones}) < k_neighbors(method) + 1

\* self.balancing_method after a sampler that worked
sampler_name(method) ==
    IF method = "smote" THEN "smote_standard"
    ELSE IF method = "borderline_smote" THEN "smote_borderline"
    ELSE IF method = "svm_smote" THEN "smote_svm"
    ELSE method

\* mutant of fallback_oversample: the default ratio of balance_dataset
fallback_oversample_balance_default(lab) ==
    random_oversample(lab, BalanceDefaultRatio)

\* `return self.random_oversample(X, y)` of the fallback branches: target_ratio
\* is not passed, random_oversample uses its default 0.5
fallback_oversample(lab) ==
    random_oversample(lab, OversampleDefaultRatio)

\* apply_adasyn, apply_smote and apply_combined_sampling.  `sampler` is what
\* fit_resample does when it can work: "fails" (it raises) or "succeeds" (the
\* smaller class comes back as large as the other one).
apply_sampler(lab, method, sampler) ==
    IF ~lab.imblearn \/ sampler = "fails" \/ sampler_must_fail(lab, method)
    THEN fallback_oversample(lab)
    ELSE [status |-> "ok",
          y_balanced |-> [zeros |-> -SetMin({-lab.zeros, -lab.ones}),
                          ones |-> -SetMin({-lab.zeros, -lab.ones})],
          balancing_method |-> sampler_name(method)]

\* lines 336-353
apply_method(lab, method, target_ratio, sampler) ==
    IF method \in SyntheticMethods THEN apply_sampler(lab, method, sampler)
    ELSE IF method = "random_over" THEN random_oversample(lab, target_ratio)
    ELSE IF method = "random_under" THEN random_undersample(lab, target_ratio)
    ELSE [status |-> "error"]

\* lines 355-383, after the method was applied
balancing_report(lab, method, original_analysis, applied, balanced_analysis) ==
    IF balanced_analysis.status = "error" THEN [status |-> "error"]
    ELSE [status |-> "ok",
          y_balanced |-> applied.y_balanced,
          balancing_method |-> applied.balancing_method,
          report |->
            [method |-> method,
             original_distribution |-> original_analysis,
             balanced_distribution |-> balanced_analysis,
             sample_change |->
               [original_samples |-> original_analysis.total_samples,
                balanced_samples |-> balanced_analysis.total_samples,
                samples_added |-> balanced_analysis.total_samples
                                    - original_analysis.total_samples],
             class_balance_improvement |->
               [original_imbalance_ratio |-> original_analysis.imbalance_ratio,
                balanced_imbalance_ratio |-> balanced_analysis.imbalance_ratio]]]

\* lines 332-356
balance_applied(lab, method, original_analysis, applied) ==
    IF original_analysis.status = "error" \/ applied.status = "error"
    THEN [status |-> "error"]
    ELSE balancing_report(lab, method, original_analysis, applied,
                          analyze_class_distribution(applied.y_balanced))

balance_dataset(lab, method, target_ratio, sampler) ==
    balance_applied(lab, method,
                    analyze_class_distribution([zeros |-> lab.zeros, ones |-> lab.ones]),
                    apply_method(lab, method, target_ratio, sampler))

\* a fresh balancer and the labels it is given
InitBalancer ==
    /\ LoaderIdle /\ PreIdle /\ ValidatorIdle /\ FeaturesIdle
    /\ \E zeros \in 0..MaxClassCount, ones \in 0..MaxClassCount,
          imblearn \in BOOLEAN, strict_resample \in BOOLEAN :
            labels = [zeros |-> zeros, ones |-> ones,
                      imblearn |-> imblearn, strict_resample |-> strict_resample]
    /\ balance_result = NoCall
    /\ previous_balance = NoCall

\* balancer.balance_dataset(X, y, method, target_ratio); previous_balance
\* keeps the latest earlier call that used a random method
BalanceDataset(method, target_ratio, sampler) ==
    /\ balance_result' = [op |-> "balance_dataset", method |-> method,
                          target_ratio |-> target_ratio, sampler |-> sampler,
                          ret |-> balance_dataset(labels, method, target_ratio, sampler)]
    /\ previous_balance' = IF balance_result # NoCall
                               /\ balance_result.method \in RandomMethods
                            THEN balance_result ELSE previous_balance
    /\ UNCHANGED <<df_raw, load_result, df, pre_result, preprocessing_stats,
                   labels, table, validation, feature_df, feature_result, batch>>

\* the target_ratio passed along with a synthetic or combined method: the
\* default of balance_dataset, or one asked for by the caller
SyntheticRatios == {BalanceDefaultRatio, <<3, 5>>}

NextBalancer ==
    \/ \E method \in SyntheticMethods, target_ratio \in SyntheticRatios,
          sampler \in {"fails", "succeeds"} :
          BalanceDataset(method, target_ratio, sampler)
    \/ \E method \in RandomMethods, target_ratio \in Ratios :
          BalanceDataset(method, target_ratio, "unused")

SpecBalancer == InitBalancer /\ [][NextBalancer]_vars

(***************************************************************************)
(* DataValidator.  A table is its column list, the day the check runs, and *)
(* its meters in blocks: a block stands for `copies` meters with distinct  *)
(* ids of one kind and the same rows; the rows of a meter are runs of      *)
(* `days` consecutive daily rows with one reading and one category.        *)
(***************************************************************************)
MaxPopulation == 1001    \* meters of a table

\* validation_rules and the thresholds of the checks
min_value == 0
max_value == 1000
TypeSample == 100        \* non_null_data.iloc[:100]
MinDaysOfData == 30      \* meter_counts < 30
RecordLimit == 2000       \* meter_counts > 2000
SampleSize == 1000       \* np.random.choice(unique_meters, size=1000)
LargeGap == 7            \* gaps > 7
ZeroDayLimit == 100       \* zero_consumption_by_meter > 100
MinConstantRows == 10    \* len(meter_data) > 10
ErrorPenalty == 10
WarningPenalty == 2
FullScore == 100

Text == <<0, 0>>         \* a reading that is a string: the column is not numeric
BadDate == -2            \* a date pd.to_datetime cannot parse
NoCategory == "nan"      \* a null customer_category
allowed_values == {"residential", "commercial", "industrial"}
RuleColumns == <<"meter_id", "date", "consumption", "customer_category">>

\* an entry of an 'errors' or 'warnings' list
Message(text, column, count) == [text |-> text, column |-> column, count |-> count]

RECURSIVE SumTo(_, _)
SumTo(f, n) == IF n = 0 THEN 0 ELSE f[n] + SumTo(f, n - 1)

\* len(meter_data): the rows of one meter with these runs
n_rows(runs) == SumTo([i \in DOMAIN runs |-> runs[i].days], Len(runs))

\* the distinct dates of one meter
dates(runs) ==
    UNION {IF runs[i].date = BadDate THEN {BadDate}
           ELSE runs[i].date..(runs[i].date + runs[i].days - 1) : i \in DOMAIN runs}

\* len(df)
total_records(tbl) ==
    SumTo([b \in DOMAIN tbl.meters |->
             tbl.meters[b].copies * n_rows(tbl.meters[b].rows)], Len(tbl.meters))

\* len(df['meter_id'].unique())
total_meters(tbl) ==
    SumTo([b \in DOMAIN tbl.meters |-> tbl.meters[b].copies], Len(tbl.meters))

\* the distinct cells of the consumption or the customer_category column
cells(tbl, column) ==
    UNION {{tbl.meters[b].rows[i][column] : i \in DOMAIN tbl.meters[b].rows} :
              b \in DOMAIN tbl.meters}

\* the rows of one meter whose cell of the column is in S
meter_rows_with(runs, column, S) ==
    SumTo([i \in DOMAIN runs |-> IF runs[i][column] \in S THEN runs[i].days ELSE 0],
          Len(runs))

\* (df[column] in S).sum()
rows_with(tbl, column, S) ==
    SumTo([b \in DOMAIN tbl.meters |->
             tbl.meters[b].copies * meter_rows_with(tbl.meters[b].rows, column, S)],
          Len(tbl.meters))

\* the number of meters of the blocks flagged in `flagged`
meters_with(tbl, flagged) ==
    SumTo([b \in DOMAIN tbl.meters |->
             IF flagged[b] THEN tbl.meters[b].copies ELSE 0],
          Len(tbl.meters))

has(tbl, column) == column \in Range(tbl.columns)

\* pd.api.types.is_numeric_dtype(df['consumption'])
is_numeric_dtype(tbl) == Text \notin cells(tbl, "consumption")

\* the readings below / above a limit; a null compares False
below(tbl, limit) == {c \in cells(tbl, "consumption") \ {NaN} : RLess(c, limit)}
above(tbl, limit) == {c \in cells(tbl, "consumption") \ {NaN} : RLess(limit, c)}

\* a value that is not a string among the first 100 meter ids
non_string_sampled(tbl) ==
    \E b \in DOMAIN tbl.meters :
        /\ tbl.meters[b].meter_id = "number"
        /\ SumTo([a \in DOMAIN tbl.meters |->
                    IF a < b THEN tbl.meters[a].copies * n_rows(tbl.meters[a].rows)
                    ELSE 0], Len(tbl.meters)) < TypeSample

\* what is handed over is a DataFrame; NotAFrame stands for an object without
\* columns and without a length (None)
NotAFrame == [object |-> "None"]
is_frame(tbl) == "columns" \in DOMAIN tbl

\* mutant of failed_check: the exception is recorded, valid is left True
failed_check_left_valid(text, column) ==
    [valid |-> TRUE, errors |-> <<Message(text, column, 0)>>, warnings |-> <<>>]

\* the `except Exception as e` of a check: valid False, str(e) the only error
failed_check(text, column) ==
    [valid |-> FALSE, errors |-> <<Message(text, column, 0)>>, warnings |-> <<>>]

\* the 'required' test of line 78 sits inside `for column in df.columns` and
\* is never true there
validate_data_types(tbl) ==
    IF ~is_frame(tbl) THEN failed_check("AttributeError", "") ELSE
    [valid |-> ~(has(tbl, "consumption") /\ ~is_numeric_dtype(tbl)),
     errors |-> IF has(tbl, "consumption") /\ ~is_numeric_dtype(tbl)
                THEN <<Message("should be numeric", "consumption", 0)>> ELSE <<>>,
     warnings |-> IF has(tbl, "meter_id") /\ non_string_sampled(tbl)
                  THEN <<Message("contains non-string values", "meter_id", 0)>>
                  ELSE <<>>]

\* lines 121-148: the violations of one column
violations(tbl, column) ==
    IF ~has(tbl, column) THEN <<>>
    ELSE IF column = "consumption" /\ is_numeric_dtype(tbl)
    THEN (IF below(tbl, Num(min_value)) # {}
          THEN <<Message("values below minimum", column,
                         rows_with(tbl, column, below(tbl, Num(min_value))))>>
          ELSE <<>>)
         \o (IF above(tbl, Num(max_value)) # {}
             THEN <<Message("values above maximum", column,
                            rows_with(tbl, column, above(tbl, Num(max_value))))>>
             ELSE <<>>)
    ELSE IF column = "customer_category"
              /\ cells(tbl, column) \ (allowed_values \cup {NoCategory}) # {}
    THEN <<Message("Invalid values", column, 0)>>
    ELSE IF column = "meter_id"
              /\ \E b \in DOMAIN tbl.meters : tbl.meters[b].meter_id # "pattern"
    THEN <<Message("values don't match pattern", column,
                   total_records(tbl)
                     - SumTo([b \in DOMAIN tbl.meters |->
                                IF tbl.meters[b].meter_id = "pattern"
                                THEN tbl.meters[b].copies * n_rows(tbl.meters[b].rows)
                                ELSE 0], Len(tbl.meters)))>>
    ELSE <<>>

\* lines 150-156: the violations of a column are warnings when one of them is
\* about the minimum or the maximum, errors otherwise
range_warnings(found) ==
    IF \E i \in DOMAIN found :
          found[i].text \in {"values below minimum", "values above maximum"}
    THEN found ELSE <<>>

range_errors(found) == IF range_warnings(found) = <<>> THEN found ELSE <<>>

validate_value_ranges(tbl) ==
    IF ~is_frame(tbl) THEN failed_check("AttributeError", "") ELSE
    [valid |-> \A c \in Range(RuleColumns) : range_errors(violations(tbl, c)) = <<>>,
     errors |-> range_errors(violations(tbl, RuleColumns[1]))
                  \o range_errors(violations(tbl, RuleColumns[2]))
                  \o range_errors(violations(tbl, RuleColumns[3]))
                  \o range_errors(violations(tbl, RuleColumns[4])),
     warnings |-> range_warnings(violations(tbl, RuleColumns[1]))
                    \o range_warnings(violations(tbl, RuleColumns[2]))
                    \o range_warnings(violations(tbl, RuleColumns[3]))
                    \o range_warnings(violations(tbl, RuleColumns[4]))]

\* df.duplicated(['meter_id', 'date']).sum(): the rows of a meter beyond the
\* first of each of its dates
duplicates(tbl) ==
    SumTo([b \in DOMAIN tbl.meters |->
             tbl.meters[b].copies
               * (n_rows(tbl.meters[b].rows) - Cardinality(dates(tbl.meters[b].rows)))],
          Len(tbl.meters))

\* lines 182-198
consistency_errors(tbl) ==
    (IF has(tbl, "meter_id") /\ has(tbl, "date") /\ duplicates(tbl) > 0
     THEN <<Message("duplicate meter_id/date combinations", "", duplicates(tbl))>>
     ELSE <<>>)
    \o (IF has(tbl, "consumption") /\ NaN \in cells(tbl, "consumption")
        THEN <<Message("null values", "consumption",
                       rows_with(tbl, "consumption", {NaN}))>>
        ELSE <<>>)

\* lines 200-211
consistency_warnings(tbl) ==
    IF ~has(tbl, "meter_id") THEN <<>>
    ELSE (IF \E b \in DOMAIN tbl.meters :
                n_rows(tbl.meters[b].rows) < MinDaysOfData
          THEN <<Message("meters have less than 30 days of data", "",
                   meters_with(tbl, [b \in DOMAIN tbl.meters |->
                      n_rows(tbl.meters[b].rows) < MinDaysOfData]))>>
          ELSE <<>>)
         \o (IF \E b \in DOMAIN tbl.meters :
                   n_rows(tbl.meters[b].rows) > RecordLimit
             THEN <<Message("meters have more than 2000 records", "",
                      meters_with(tbl, [b \in DOMAIN tbl.meters |->
                         n_rows(tbl.meters[b].rows) > RecordLimit]))>>
             ELSE <<>>)

\* mutant of validate_data_consistency: errors recorded, valid left True
validate_data_consistency_left_valid(tbl) ==
    IF ~is_frame(tbl) THEN failed_check("AttributeError", "") ELSE
    [valid |-> TRUE,
     errors |-> consistency_errors(tbl),
     warnings |-> consistency_warnings(tbl)]

validate_data_consistency(tbl) ==
    IF ~is_frame(tbl) THEN failed_check("AttributeError", "") ELSE
    [valid |-> consistency_errors(tbl) = <<>>,
     errors |-> consistency_errors(tbl),
     warnings |-> consistency_warnings(tbl)]

\* lines 265-273 for one meter: date_diffs > days between its sorted dates (a
\* repeated date gives a difference of 0), counted on its distinct dates
steps_over(days, ds) ==
    Cardinality({d \in ds : /\ \E e \in ds : e < d
                            /\ \A e \in ds : ~(e < d /\ d - e <= days)})

meter_gaps(runs) == [gaps |-> steps_over(1, dates(runs)),
                     large |-> steps_over(LargeGap, dates(runs))]

\* lines 264-273: the counts over the sampled meters, sample[b] of block b
sampled_gaps(tbl, sample) ==
    [meters_with_gaps |->
        SumTo([b \in DOMAIN sample |->
                 IF meter_gaps(tbl.meters[b].rows).gaps > 0 THEN sample[b] ELSE 0],
              Len(sample)),
     total_gaps |->
        SumTo([b \in DOMAIN sample |-> sample[b] * meter_gaps(tbl.meters[b].rows).gaps],
              Len(sample)),
     large_gaps |->
        SumTo([b \in DOMAIN sample |-> sample[b] * meter_gaps(tbl.meters[b].rows).large],
              Len(sample))]

\* mutant of scale_up: the sampling fraction instead of its inverse
scale_up_inverted(count, n_meters) == (count * SampleSize) \div n_meters

\* int(count * scale_factor) with scale_factor = len(unique_meters) / 1000.
\* The product is a binary64 float: for 1001 meters and a count of 1000, 2000
\* or 3000 it falls just below the whole number count * 1001 / 1000 and int()
\* gives one less; for 1002 meters and the other counts up to 3000 it is exact.
scale_up(count, n_meters) ==
    IF n_meters = 1001 /\ count \in {1000, 2000, 3000}
    THEN (count * n_meters) \div SampleSize - 1
    ELSE (count * n_meters) \div SampleSize

\* lines 275-280
scaled_gaps(found, n_meters) ==
    IF n_meters > SampleSize
    THEN [meters_with_gaps |-> scale_up(found.meters_with_gaps, n_meters),
          total_gaps |-> scale_up(found.total_gaps, n_meters),
          large_gaps |-> scale_up(found.large_gaps, n_meters)]
    ELSE found

\* (df_temp['date'].dt.date > today).sum()
future_dates(tbl) ==
    SumTo([b \in DOMAIN tbl.meters |->
             tbl.meters[b].copies
               * SumTo([i \in DOMAIN tbl.meters[b].rows |->
                          Cardinality({d \in dates(<<tbl.meters[b].rows[i]>>) :
                                          d > tbl.today})],
                       Len(tbl.meters[b].rows))],
          Len(tbl.meters))

\* pd.to_datetime(df_temp['date']) raises
unparseable_dates(tbl) ==
    \E b \in DOMAIN tbl.meters : BadDate \in dates(tbl.meters[b].rows)

\* lines 282-300
continuity_warnings(tbl, reported) ==
    (IF reported.meters_with_gaps > 0
     THEN <<Message("meters have date gaps", "", reported.meters_with_gaps)>>
          \o (IF reported.large_gaps > 0
              THEN <<Message("large gaps (>7 days) found", "", reported.large_gaps)>>
              ELSE <<>>)
     ELSE <<>>)
    \o (IF future_dates(tbl) > 0
        THEN <<Message("records have future dates", "", future_dates(tbl))>>
        ELSE <<>>)

NoGaps == [meters_with_gaps |-> 0, total_gaps |-> 0, large_gaps |-> 0]

\* `sample` is np.random.choice(unique_meters, size=1000, replace=False), or
\* every meter when there are at most 1000
validate_time_series_continuity(tbl, sample) ==
    IF ~is_frame(tbl)
    THEN failed_check("AttributeError", "")
            @@ [sample_meters |-> 0, sampled |-> NoGaps, continuity_issues |-> NoGaps]
    ELSE IF ~has(tbl, "meter_id") \/ ~has(tbl, "date")
    THEN [valid |-> TRUE, errors |-> <<>>,
          warnings |-> <<Message("Cannot validate time series continuity", "", 0)>>,
          sample_meters |-> 0, sampled |-> NoGaps, continuity_issues |-> NoGaps]
    ELSE IF unparseable_dates(tbl)
    THEN [valid |-> FALSE,
          errors |-> <<Message("Cannot convert date column to datetime", "date", 0)>>,
          warnings |-> <<>>,
          sample_meters |-> 0, sampled |-> NoGaps, continuity_issues |-> NoGaps]
    ELSE [valid |-> TRUE, errors |-> <<>>,
          warnings |-> continuity_warnings(tbl,
                          scaled_gaps(sampled_gaps(tbl, sample), total_meters(tbl))),
          sample_meters |-> SumTo(sample, Len(sample)),
          sampled |-> sampled_gaps(tbl, sample),
          continuity_issues |->
              scaled_gaps(sampled_gaps(tbl, sample), total_meters(tbl))]

\* the k-th smallest non-null reading of the table, k from 0
value_at(tbl, k) ==
    CHOOSE v \in cells(tbl, "consumption") \ {NaN} :
        /\ rows_with(tbl, "consumption", below(tbl, v)) <= k
        /\ k < rows_with(tbl, "consumption", below(tbl, v) \cup {v})

\* linear interpolation between the order statistics lo and lo + 1, times 3
interpolated(tbl, lo, fr) ==
    IF fr = 0 THEN RMul(Num(3), value_at(tbl, lo))
    ELSE RMul(Num(3), RAdd(value_at(tbl, lo),
                           RMul(Rat(fr, 1000),
                                RSub(value_at(tbl, lo + 1), value_at(tbl, lo)))))

\* df['consumption'].quantile(0.999) * 3
high_threshold(tbl) ==
    IF cells(tbl, "consumption") \subseteq {NaN} THEN NaN
    ELSE interpolated(tbl,
            ((rows_with(tbl, "consumption", cells(tbl, "consumption") \ {NaN}) - 1)
                * 999) \div 1000,
            ((rows_with(tbl, "consumption", cells(tbl, "consumption") \ {NaN}) - 1)
                * 999) % 1000)

\* (df['consumption'] > high_threshold).sum()
extreme_high(tbl, threshold) ==
    IF threshold = NaN THEN 0
    ELSE rows_with(tbl, "consumption", above(tbl, threshold))

\* lines 357-360: more than 10 rows, std() == 0 (two readings or more, all
\* the same) and a first reading above 0
constant_consumption(runs) ==
    /\ n_rows(runs) > MinConstantRows
    /\ n_rows(runs) - meter_rows_with(runs, "consumption", {NaN}) > 1
    /\ Cardinality({runs[i].consumption : i \in DOMAIN runs} \ {NaN}) = 1
    /\ runs[1].consumption # NaN
    /\ RLess(Num(0), runs[1].consumption)

\* more than 100 rows of the meter read 0
zero_days_over(runs) == meter_rows_with(runs, "consumption", {Num(0)}) > ZeroDayLimit

\* cells of customer_category outside the valid categories, nulls dropped
invalid_categories(tbl) ==
    cells(tbl, "customer_category") \ (allowed_values \cup {NoCategory})

\* mutant of business_errors: the count is that of the distinct negative readings
business_errors_distinct_negatives(tbl) ==
    (IF has(tbl, "consumption") /\ below(tbl, Num(0)) # {}
     THEN <<Message("records with negative consumption", "consumption",
                    Cardinality(below(tbl, Num(0))))>>
     ELSE <<>>)
    \o (IF has(tbl, "customer_category") /\ invalid_categories(tbl) # {}
        THEN <<Message("records have invalid customer categories", "customer_category",
                       rows_with(tbl, "customer_category", invalid_categories(tbl)))>>
        ELSE <<>>)

\* lines 326-332 and 366-373
business_errors(tbl) ==
    (IF has(tbl, "consumption") /\ below(tbl, Num(0)) # {}
     THEN <<Message("records with negative consumption", "consumption",
                    rows_with(tbl, "consumption", below(tbl, Num(0))))>>
     ELSE <<>>)
    \o (IF has(tbl, "customer_category") /\ invalid_categories(tbl) # {}
        THEN <<Message("records have invalid customer categories", "customer_category",
                       rows_with(tbl, "customer_category", invalid_categories(tbl)))>>
        ELSE <<>>)

\* lines 334-364
business_warnings(tbl) ==
    IF ~has(tbl, "consumption") THEN <<>>
    ELSE (IF extreme_high(tbl, high_threshold(tbl)) > 0
          THEN <<Message("records with extremely high consumption", "consumption",
                         extreme_high(tbl, high_threshold(tbl)))>>
          ELSE <<>>)
         \o (IF has(tbl, "meter_id")
                  /\ \E b \in DOMAIN tbl.meters :
                        zero_days_over(tbl.meters[b].rows)
             THEN <<Message("meters have >100 zero consumption days", "",
                      meters_with(tbl, [b \in DOMAIN tbl.meters |->
                         zero_days_over(tbl.meters[b].rows)]))>>
             ELSE <<>>)
         \o (IF has(tbl, "meter_id")
                  /\ \E b \in DOMAIN tbl.meters :
                        constant_consumption(tbl.meters[b].rows)
             THEN <<Message("meters have constant non-zero consumption", "",
                      meters_with(tbl, [b \in DOMAIN tbl.meters |->
                         constant_consumption(tbl.meters[b].rows)]))>>
             ELSE <<>>)

\* df['consumption'] < 0 raises on a column that holds a string: the except
\* branch returns the exception as the only error
validate_business_rules(tbl) ==
    IF ~is_frame(tbl) THEN failed_check("AttributeError", "")
    ELSE IF has(tbl, "consumption") /\ ~is_numeric_dtype(tbl)
    THEN failed_check("TypeError", "consumption")
    ELSE [valid |-> business_errors(tbl) = <<>>,
          errors |-> business_errors(tbl),
          warnings |-> business_warnings(tbl)]

\* mutant of validation_score: a warning costs as much as an error
validation_score_flat_penalty(total_errors, total_warnings) ==
    Min2(Num(FullScore),
         Max2(Num(0),
              Num(FullScore - (total_errors + total_warnings) * ErrorPenalty)))[1]

\* lines 439-443
validation_score(total_errors, total_warnings) ==
    Min2(Num(FullScore),
         Max2(Num(0),
              Num(FullScore - total_errors * ErrorPenalty
                    - total_warnings * WarningPenalty)))[1]

\* lines 400-443, the five results in the order they are computed
comprehensive_report(tbl, checks) ==
    [dataset_info |-> [total_records |-> total_records(tbl),
                       columns |-> tbl.columns],
     overall_validity |-> \A i \in DOMAIN checks : checks[i].valid,
     validation_results |->
        [data_types |-> checks[1], value_ranges |-> checks[2],
         data_consistency |-> checks[3], time_series_continuity |-> checks[4],
         business_rules |-> checks[5]],
     summary |->
        [total_errors |-> SumTo([i \in DOMAIN checks |-> Len(checks[i].errors)], 5),
         total_warnings |-> SumTo([i \in DOMAIN checks |-> Len(checks[i].warnings)], 5)],
     validation_score |->
        validation_score(SumTo([i \in DOMAIN checks |-> Len(checks[i].errors)], 5),
                         SumTo([i \in DOMAIN checks |-> Len(checks[i].warnings)], 5))]

\* lines 392-396: the five checks, in the order they are run
run_checks(tbl, sample) ==
    <<validate_data_types(tbl), validate_value_ranges(tbl),
      validate_data_consistency(tbl),
      validate_time_series_continuity(tbl, sample),
      validate_business_rules(tbl)>>

\* lines 449-457: the report of a failure in comprehensive_validation itself
validation_failed(text) ==
    [overall_validity |-> FALSE,
     validation_results |-> <<>>,
     summary |-> [total_errors |-> 1, total_warnings |-> 0],
     validation_score |-> 0,
     error |-> text]

\* lines 398-447 once the checks returned: len(df) of line 401 raises on an
\* object without a length
combine_results(tbl, checks) ==
    IF ~is_frame(tbl) THEN validation_failed("TypeError")
    ELSE comprehensive_report(tbl, checks)

comprehensive_validation(tbl, sample) ==
    combine_results(tbl, run_checks(tbl, sample))

\* the tables the validator is run on
LongRun == MinDaysOfData + 1
Today == 60
ColumnLists ==
    {RuleColumns} \cup
    {SelectSeq(RuleColumns, LAMBDA c : c # gone) : gone \in Range(RuleColumns)}
SmallPopulations == {<<1, 0>>, <<1, 1>>}
LargePopulations == {<<SampleSize, 1>>, <<MaxPopulation - 1, 1>>, <<1, SampleSize>>}
Run(date, days, consumption, category) ==
    [date |-> date, days |-> days, consumption |-> consumption,
     customer_category |-> category]
Companion(copies) ==
    IF copies = 0 THEN <<>>
    ELSE <<[copies |-> copies, meter_id |-> "pattern",
            rows |-> <<Run(0, LongRun, Num(10), "residential"),
                       Run(LongRun, 1, Num(12), "residential")>>]>>
SecondRuns(days, category) ==
    {<<>>, <<Run(days, 1, Num(-5), category)>>} \cup
    {<<Run(date, 1, Num(12), category)>> :
        date \in {days, days + 1, days + 9, 0, BadDate}}

\* np.random.choice(unique_meters, size=1000, replace=False): how many meters
\* of each block are drawn (tables of one or two blocks)
Samples(tbl) ==
    IF ~is_frame(tbl) THEN {<<>>}
    ELSE IF total_meters(tbl) <= SampleSize
    THEN {[b \in DOMAIN tbl.meters |-> tbl.meters[b].copies]}
    ELSE IF Len(tbl.meters) = 1 THEN {<<SampleSize>>}
    ELSE {<<k, SampleSize - k>> :
            k \in {j \in 0..SampleSize : /\ j <= tbl.meters[1].copies
                                         /\ SampleSize - j <= tbl.meters[2].copies}}

Subject(columns, today, population, kind, first, second) ==
    [columns |-> columns, today |-> today,
     meters |-> <<[copies |-> population[1], meter_id |-> kind,
                   rows |-> <<first>> \o second]>>
                 \o Companion(population[2])]

InitValidator ==
    /\ LoaderIdle /\ PreIdle /\ BalancerIdle /\ FeaturesIdle
    /\ validation = NoCall
    /\ \/ table = NotAFrame
       \/ \E today \in {0, Today}, days \in {1, LongRun},
          consumption \in {Num(10), Num(-5), Num(1500), NaN, Text} :
         \/ \E columns \in ColumnLists, population \in SmallPopulations,
               kind \in {"pattern", "plain", "number"},
               category \in {"residential", "unknown", NoCategory} :
              \E second \in SecondRuns(days, category) :
                 table = Subject(columns, today, population, kind,
                                 Run(0, days, consumption, category), second)
         \/ \E population \in LargePopulations :
              \E second \in SecondRuns(days, "residential") :
                 table = Subject(RuleColumns, today, population, "pattern",
                                 Run(0, days, consumption, "residential"), second)

\* the call is recorded with what its five checks returned
Validation(sample, checks) ==
    [op |-> "comprehensive_validation", sample |-> sample,
     checks |-> checks,
     ret |-> combine_results(table, checks)]

\* validator.comprehensive_validation(df)
ComprehensiveValidation(sample) ==
    /\ validation = NoCall
    /\ validation' = Validation(sample, run_checks(table, sample))
    /\ UNCHANGED <<df_raw, load_result, df, pre_result, preprocessing_stats,
                   labels, balance_result, previous_balance, table,
                   feature_df, feature_result, batch>>

NextValidator == \E sample \in Samples(table) : ComprehensiveValidation(sample)

SpecValidator == InitValidator /\ [][NextValidator]_vars

(***************************************************************************)
(* ElectricityFeatureEngineer.  The table handed to it is a sequence of    *)
(* meters, each with one reading a day for `days` days from day `first`    *)
(* (day 0 is 2014-01-01, a Wednesday); the result is the number of rows    *)
(* and the ordered column list.  tsfresh is not installed.                 *)
(***************************************************************************)
MaxSeries == 2            \* meters of the table

MinPatternRows == 30      \* len(meter_data) < 30: no pattern features
ServingWindow == 90       \* timedelta(days=90)
YearDays == 365           \* 2014 and 2015
MonthStarts == <<0, 31, 59, 90, 120, 151, 181, 212, 243, 273, 304, 334>>

\* Series.dt.dayofweek (Monday is 0), Series.dt.month, and is_weekend
dayofweek(d) == (d + 2) % 7
month(d) == Cardinality({i \in DOMAIN MonthStarts : MonthStarts[i] <= d % YearDays})
is_weekend(d) == IF dayofweek(d) \in {5, 6} THEN 1 ELSE 0

\* A series is `days` rows of one meter, the first on day `first` and each
\* `step` days after the one before; its reading is `monday` on a Monday,
\* `weekday` from Tuesday to Friday and `weekend` on Saturday and Sunday.
series_dates(s) == {s.first + s.step * k : k \in 0..(s.days - 1)}

reading(s, d) ==
    IF is_weekend(d) = 1 THEN s.weekend
    ELSE IF dayofweek(d) = 0 THEN s.monday
    ELSE s.weekday

\* df['date'] of the whole table
table_dates(tbl) == UNION {series_dates(tbl[m]) : m \in DOMAIN tbl}

stat_columns ==
    <<"stat_mean", "stat_median", "stat_std", "stat_var", "stat_min", "stat_max",
      "stat_count", "stat_q25", "stat_q75", "stat_q90", "stat_q95", "stat_skew",
      "stat_kurtosis", "stat_range", "stat_cv", "stat_iqr">>

weekly_columns ==
    <<"temporal_weekday_0_avg", "temporal_weekday_1_avg", "temporal_weekday_2_avg",
      "temporal_weekday_3_avg", "temporal_weekday_4_avg", "temporal_weekday_5_avg",
      "temporal_weekday_6_avg">>

monthly_columns ==
    <<"temporal_month_1_avg", "temporal_month_2_avg", "temporal_month_3_avg",
      "temporal_month_4_avg", "temporal_month_5_avg", "temporal_month_6_avg",
      "temporal_month_7_avg", "temporal_month_8_avg", "temporal_month_9_avg",
      "temporal_month_10_avg", "temporal_month_11_avg", "temporal_month_12_avg">>

weekend_columns ==
    <<"temporal_weekday_mean", "temporal_weekday_std", "temporal_weekend_mean",
      "temporal_weekend_std">>

pattern_columns ==
    <<"pattern_zero_days", "pattern_zero_ratio", "pattern_low_consumption_days",
      "pattern_low_consumption_ratio", "pattern_stability", "pattern_trend_slope",
      "pattern_avg_daily_change", "pattern_max_daily_drop",
      "pattern_max_daily_increase", "pattern_change_volatility",
      "pattern_significant_drops", "pattern_significant_increases",
      "pattern_autocorr_1day", "pattern_autocorr_7day">>

\* unstack() gives one column for each value present in the table, and
\* assigning a list of names of another length raises ValueError
create_temporal_features_raises(tbl) ==
    \/ Cardinality({dayofweek(d) : d \in table_dates(tbl)}) # Len(weekly_columns)
    \/ Cardinality({month(d) : d \in table_dates(tbl)}) # Len(monthly_columns)
    \/ 2 * Cardinality({is_weekend(d) : d \in table_dates(tbl)}) # Len(weekend_columns)

\* mutant of merge_pattern_features_raises: an empty pattern_df is merged
merge_pattern_features_never_raises(tbl) == FALSE

\* no meter has 30 rows: pattern_df has no meter_id column and the merge raises
merge_pattern_features_raises(tbl) ==
    \A m \in DOMAIN tbl : tbl[m].days < MinPatternRows

\* the readings of a meter on weekdays (is_weekend 0) or at weekends (1): how
\* many, their sum and the sum of their squares
group(s, flag) ==
    [count |-> Cardinality({d \in series_dates(s) : is_weekend(d) = flag}),
     sum |-> IF flag = 1
             THEN s.weekend * Cardinality({d \in series_dates(s) : is_weekend(d) = 1})
             ELSE s.monday * Cardinality({d \in series_dates(s) : dayofweek(d) = 0})
                    + s.weekday
                        * Cardinality({d \in series_dates(s) : dayofweek(d) \in 1..4}),
     squares |->
             IF flag = 1
             THEN s.weekend * s.weekend
                    * Cardinality({d \in series_dates(s) : is_weekend(d) = 1})
             ELSE s.monday * s.monday
                    * Cardinality({d \in series_dates(s) : dayofweek(d) = 0})
                    + s.weekday * s.weekday
                        * Cardinality({d \in series_dates(s) : dayofweek(d) \in 1..4})]

\* a square root that is kept exact: <<n, d, 2>> is the root of n/d
Sqrt(r) == IF r[1] = 0 THEN Num(0) ELSE <<r[1], r[2], 2>>

\* the square of a value, a number n/d or a root
Squared(v) == IF Len(v) = 3 THEN Rat(v[1], v[2]) ELSE Rat(v[1] * v[1], v[2] * v[2])

\* agg 'mean' and 'std' (ddof 1) of a group; a group that is absent is filled
\* with 0 by unstack, the NaN std of a single row by fillna(0)
group_mean(g) == IF g.count = 0 THEN Num(0) ELSE Rat(g.sum, g.count)
group_std(g) ==
    IF g.count < 2 THEN Num(0)
    ELSE Sqrt(Rat(g.count * g.squares - g.sum * g.sum, g.count * (g.count - 1)))

\* .agg(['mean', 'std']).unstack(): the columns come out statistic by
\* statistic, (mean, 0), (mean, 1), (std, 0), (std, 1)
unstacked(s) ==
    <<group_mean(group(s, 0)), group_mean(group(s, 1)),
      group_std(group(s, 0)), group_std(group(s, 1))>>

\* lines 106-107, 114: weekend_features.columns = [...] names the columns by
\* position; the ratio is num / (den + 1e-6)
weekend_features(s) ==
    [temporal_weekday_mean |-> unstacked(s)[1],
     temporal_weekday_std |-> unstacked(s)[2],
     temporal_weekend_mean |-> unstacked(s)[3],
     temporal_weekend_std |-> unstacked(s)[4],
     temporal_weekend_weekday_ratio |->
        [num |-> unstacked(s)[3], den |-> unstacked(s)[1]]]

\* (meter_data == 0).sum()
zero_days(s) == Cardinality({d \in series_dates(s) : reading(s, d) = 0})

\* mutant of pattern_value: the meters with fewer than 30 rows are not skipped
pattern_value_unskipped(s, v) == v

\* lines 149-150 and 323-325: a meter with fewer than 30 rows has no pattern
\* row; the left merge leaves NaN and fillna(0) makes it 0
pattern_value(s, v) == IF s.days < MinPatternRows THEN Num(0) ELSE v

pattern_features(s) ==
    [pattern_zero_days |-> pattern_value(s, Num(zero_days(s))),
     pattern_zero_ratio |-> pattern_value(s, Rat(zero_days(s), s.days))]

\* the columns of the frame create_tsfresh_features returns when tsfresh is
\* not installed (lines 224-226) or the extraction raises (lines 289-291):
\* the meter ids alone
create_tsfresh_features(tsfresh) == <<"meter_id">>

\* lines 317-321: the block is merged when tsfresh is installed and the frame
\* has more than the meter ids
tsfresh_columns(tsfresh) ==
    IF tsfresh # "missing" /\ Len(create_tsfresh_features(tsfresh)) > 1
    THEN Tail(create_tsfresh_features(tsfresh))
    ELSE <<>>

combine_all_features(tbl, tsfresh) ==
    IF create_temporal_features_raises(tbl) \/ merge_pattern_features_raises(tbl)
    THEN [status |-> "error"]
    ELSE [status |-> "ok",
          rows |-> Len(tbl),
          columns |-> <<"meter_id">> \o stat_columns
                        \o weekly_columns \o monthly_columns \o weekend_columns
                        \o <<"temporal_weekend_weekday_ratio">>
                        \o pattern_columns \o tsfresh_columns(tsfresh),
          features |-> [m \in DOMAIN tbl |->
                          weekend_features(tbl[m]) @@ pattern_features(tbl[m])]]

\* lines 57-65: the records of the meter of the last 90 days
recent(s, today) ==
    [s EXCEPT
       !.days = Cardinality({d \in series_dates(s) :
                               today - ServingWindow <= d /\ d <= today}),
       !.first = IF \E d \in series_dates(s) : today - ServingWindow <= d /\ d <= today
                 THEN SetMin({d \in series_dates(s) :
                                today - ServingWindow <= d /\ d <= today})
                 ELSE s.first]

\* prepare_meter_features once the rows are there.  The series hold no
\* missing reading and no reading three deviations from the mean:
\* preprocess_pipeline hands them on as they are.
prepare_features(supplied, source, tsfresh) ==
    IF source = "storage" /\ supplied.days < MinPatternRows
    THEN [status |-> "error", raised |-> "ValueError"]
    ELSE combine_all_features(<<supplied>>, tsfresh)

\* prepare_meter_features(meter_id, db, consumption_data): the rows come with
\* the request or are the stored ones of the last 90 days
prepare_meter_features(s, source, today, tsfresh) ==
    prepare_features(IF source = "request" THEN s ELSE recent(s, today),
                     source, tsfresh)

\* the tables the feature engineer is run on
Windows ==
    {[first |-> first, days |-> days, step |-> 1] :
        first \in {0, 45},
        days \in {7, MinPatternRows, ServingWindow, YearDays, YearDays + 35}}
    \cup {[first |-> 0, days |-> days, step |-> 13] :
            days \in {MinPatternRows - 1, MinPatternRows}}

Profiles == {[monday |-> 4, weekday |-> 2, weekend |-> 0],
             [monday |-> 3, weekday |-> 3, weekend |-> 3]}

Series == {w @@ p : w \in Windows, p \in Profiles}

\* whether tsfresh can be used, and the days prepare_meter_features runs on
TsfreshStates == {"missing", "fails"}
ServingDays == {ServingWindow - 1, 2 * ServingWindow}

InitFeatures ==
    /\ LoaderIdle /\ PreIdle /\ BalancerIdle /\ ValidatorIdle
    /\ feature_result = NoCall
    /\ batch = NoCall
    /\ \E n \in 1..MaxSeries : \E tbl \in [1..n -> Series] : feature_df = tbl

\* feature_engineer.combine_all_features(df)
CombineAllFeatures(tsfresh) ==
    /\ feature_result = NoCall
    /\ feature_result' = [op |-> "combine_all_features", tsfresh |-> tsfresh,
                          ret |-> combine_all_features(feature_df, tsfresh)]
    /\ UNCHANGED <<df_raw, load_result, df, pre_result, preprocessing_stats,
                   labels, balance_result, previous_balance, table, validation,
                   feature_df, batch>>

\* prepare_meter_features for the one meter of the table
PrepareMeterFeatures(source, today, tsfresh) ==
    /\ feature_result = NoCall
    /\ Len(feature_df) = 1
    /\ feature_result' = [op |-> "prepare_meter_features", source |-> source,
                          today |-> today, tsfresh |-> tsfresh,
                          ret |-> prepare_meter_features(feature_df[1], source,
                                                         today, tsfresh)]
    /\ UNCHANGED <<df_raw, load_result, df, pre_result, preprocessing_stats,
                   labels, balance_result, previous_balance, table, validation,
                   feature_df, batch>>

NextFeatures ==
    \/ \E tsfresh \in TsfreshStates : CombineAllFeatures(tsfresh)
    \/ \E source \in {"storage", "request"}, today \in ServingDays,
          tsfresh \in TsfreshStates :
          PrepareMeterFeatures(source, today, tsfresh)

SpecFeatures == InitFeatures /\ [][NextFeatures]_vars

(***************************************************************************)
(* POST /batch of src/src/api/routes/prediction.py.  feature_df holds the  *)
(* stored series of the meters, meter m being row m.  A task is "pending"  *)
(* until a worker has run process_single_prediction for it; the handler    *)
(* collects the futures in the order they were submitted.                  *)
(***************************************************************************)
MaxBatch == 2             \* meter ids of a request
max_workers == 4          \* ThreadPoolExecutor(max_workers=4)
ResponseLimit == 100      \* predictions[:100]

\* process_single_prediction: the features of the stored rows, then the model
\* (it predicts as the spec says it does); any exception gives None
process_single_prediction(s, today) ==
    IF prepare_meter_features(s, "storage", today, "missing").status = "ok"
    THEN "prediction" ELSE "none"

\* lines 388-396
batch_result(b) ==
    [total_meters |-> Len(b.meter_ids),
     successful_predictions |-> b.successful_predictions,
     failed_predictions |-> b.failed_predictions,
     predictions |-> SubSeq(b.predictions, 1,
                            IF Len(b.predictions) < ResponseLimit
                            THEN Len(b.predictions) ELSE ResponseLimit)]

\* the series in storage: a week or ninety days of daily readings
StoredSeries ==
    {[first |-> 0, days |-> days, step |-> 1,
      monday |-> 4, weekday |-> 2, weekend |-> 0] : days \in {7, ServingWindow}}

InitBatch ==
    /\ LoaderIdle /\ PreIdle /\ BalancerIdle /\ ValidatorIdle
    /\ feature_result = NoCall
    /\ batch = NoCall
    /\ \E n \in 1..MaxSeries : \E tbl \in [1..n -> StoredSeries] : feature_df = tbl

\* lines 328-357: the request arrives; a meter id that is not in the database
\* ends it with 404, otherwise one task per meter id is submitted
PredictBatchMeters(meter_ids, today) ==
    /\ batch = NoCall
    /\ batch' =
          [op |-> "predict_batch_meters", meter_ids |-> meter_ids, today |-> today,
           state |-> IF \A i \in DOMAIN meter_ids : meter_ids[i] \in DOMAIN feature_df
                     THEN "collecting" ELSE "not_found",
           tasks |-> [i \in DOMAIN meter_ids |-> "pending"],
           collected |-> <<>>,
           predictions |-> <<>>,
           successful_predictions |-> 0,
           failed_predictions |-> 0]
    /\ UNCHANGED <<df_raw, load_result, df, pre_result, preprocessing_stats,
                   labels, balance_result, previous_balance, table, validation,
                   feature_df, feature_result>>

\* a worker runs task i; the workers take the tasks in the order of submission
RunTask(i) ==
    /\ batch # NoCall
    /\ batch.state = "collecting"
    /\ i \in DOMAIN batch.tasks
    /\ batch.tasks[i] = "pending"
    /\ \A j \in 1..(i - max_workers) : batch.tasks[j] # "pending"
    /\ batch' = [batch EXCEPT !.tasks[i] =
                    process_single_prediction(feature_df[batch.meter_ids[i]],
                                              batch.today)]
    /\ UNCHANGED <<df_raw, load_result, df, pre_result, preprocessing_stats,
                   labels, balance_result, previous_balance, table, validation,
                   feature_df, feature_result>>

\* lines 359-376, one turn of the loop: future.result(timeout=30) of the next
\* future gives a result, gives None, or raises TimeoutError while the task
\* has not finished
Collect ==
    /\ batch # NoCall
    /\ batch.state = "collecting"
    /\ Len(batch.collected) < Len(batch.tasks)
    /\ batch' =
          IF batch.tasks[Len(batch.collected) + 1] = "prediction"
          THEN [batch EXCEPT
                  !.collected = Append(@, "prediction"),
                  !.predictions = Append(@, batch.meter_ids[Len(batch.collected) + 1]),
                  !.successful_predictions = @ + 1]
          ELSE [batch EXCEPT
                  !.collected =
                      Append(@, IF batch.tasks[Len(batch.collected) + 1] = "pending"
                                THEN "timeout" ELSE "none"),
                  !.failed_predictions = @ + 1]
    /\ UNCHANGED <<df_raw, load_result, df, pre_result, preprocessing_stats,
                   labels, balance_result, previous_balance, table, validation,
                   feature_df, feature_result>>

\* lines 378-403: the executor has shut down (every task has finished) and
\* the response is returned
Respond ==
    /\ batch # NoCall
    /\ batch.state = "collecting"
    /\ Len(batch.collected) = Len(batch.tasks)
    /\ \A i \in DOMAIN batch.tasks : batch.tasks[i] # "pending"
    /\ batch' = [batch EXCEPT !.state = "returned"]
                    @@ [data |-> batch_result(batch)]
    /\ UNCHANGED <<df_raw, load_result, df, pre_result, preprocessing_stats,
                   labels, balance_result, previous_balance, table, validation,
                   feature_df, feature_result>>

\* the meter ids of a request: meters of the database, or Len(feature_df) + 1,
\* which is not in it
Requests ==
    UNION {[1..n -> 1..(Len(feature_df) + 1)] : n \in 1..MaxBatch}

NextBatch ==
    \/ \E meter_ids \in Requests, today \in ServingDays :
          PredictBatchMeters(meter_ids, today)
    \/ \E i \in 1..MaxBatch : RunTask(i)
    \/ Collect
    \/ Respond

SpecBatch == InitBatch /\ [][NextBatch]_vars

(***************************************************************************)
(* Claims about the preprocessor                                           *)
(***************************************************************************)
Called(op) == pre_result.op = op /\ pre_result.ret.status = "ok"

\* C1: after handle_missing_values, with any of the four strategies, the
\* consumption column holds no null value, even for an entity all of whose
\* readings are null.
C1_NoNullAfterImputation ==
    Called("handle_missing_values") => count_null(pre_result.ret.df) = 0

\* the readings of meter m of the table, null ones included
Readings(tbl, m) == Consumption(MeterRows(tbl, m))

\* the value the claim C2 has a null reading of meter m filled with
C2_Expected(m) ==
    IF pre_result.method = "mean"
    THEN (IF Values(df, m) # <<>> THEN mean(Values(df, m)) ELSE mean(AllValues(df)))
    ELSE (IF Values(df, m) # <<>> THEN median(Values(df, m)) ELSE median(AllValues(df)))

\* C2: with strategy mean (median), a null reading of an entity that has a
\* non-null reading is filled with the entity's own mean (median), and a null
\* reading of an entity with no non-null reading is filled with the global
\* mean (median) of the table.
C2_FilledWithOwnOrGlobalStatistic ==
    (Called("handle_missing_values") /\ pre_result.method \in {"mean", "median"})
        => \A i \in DOMAIN df :
              isnull(df[i].consumption)
                  => pre_result.ret.df[i].consumption = C2_Expected(df[i].meter_id)

\* the (meter_id, date) keys of a table, row by row
Keys(tbl) == copy([i \in DOMAIN tbl |-> <<tbl[i].meter_id, tbl[i].date>>])

\* how often key k occurs
KeyCount(keys, k) == Cardinality({i \in DOMAIN keys : keys[i] = k})

\* the same keys, each as often
SameMultiset(a, b) ==
    \A k \in Range(a) \cup Range(b) : KeyCount(a, k) = KeyCount(b, k)

\* C7: for every missing-value strategy and every outlier method, the table
\* preprocess_pipeline returns has as many rows as its input and the same
\* multiset of (meter_id, date) keys.
C7_PipelinePreservesRowsAndKeys ==
    Called("preprocess_pipeline")
        => /\ Len(pre_result.ret.df) = Len(df)
           /\ SameMultiset(Keys(df), Keys(pre_result.ret.df))

\* the pipeline imputed a null, capped an outlier and re-ordered the rows
C7_Witness ==
    /\ Called("preprocess_pipeline")
    /\ pre_result.missing_method = "linear"
    /\ pre_result.outlier_method = "zscore"
    /\ count_null(df) > 0
    /\ pre_result.ret.report.processing_steps.outliers[1].outliers_processed > 0
    /\ \E i \in DOMAIN df : pre_result.ret.df[i].meter_id # df[i].meter_id

ZscoreCalled == Called("detect_and_remove_outliers") /\ pre_result.method = "zscore"

\* the readings of meter m that are not null, before and after the call
Before(m) == Values(df, m)
After(m) == Values(pre_result.ret.df, m)

Unchanged(m) == Readings(pre_result.ret.df, m) = Readings(df, m)

\* mean - T * std and mean + T * std of the readings xs, std the sample deviation
BoundsFrom(st, T) == zscore_bounds(st.mean, RDiv(st.ssd, Num(st.count - 1)), T)
SeriesBounds(xs, T) == BoundsFrom(describe(xs), T)

\* some reading of xs has |z| > T, z taken with the population deviation
SeriesFlagged(xs, T) == zscore_mask(xs, describe(xs), T) # {}

AllWithin(xs, lo, hi) == \A i \in DOMAIN xs : ~Less(xs[i], lo) /\ ~Less(hi, xs[i])
AllAtLeast(xs, lo) == \A i \in DOMAIN xs : ~Less(xs[i], lo)

\* every reading lies in [mean - T*std, mean + T*std]
InInterval(xs, b) == AllWithin(xs, b.lower, b.upper)

\* every reading lies in [mean - T*std, max(0, mean + T*std)]
InFlooredInterval(xs, b) == AllWithin(xs, b.lower, Max2(Num(0), b.upper))

CappedAt(xs, after, b) ==
    \E i \in DOMAIN xs : Less(b.upper, xs[i]) /\ after[i] = b.upper

RaisedToZero(xs, after) ==
    \E i \in DOMAIN xs : Less(xs[i], Num(0)) /\ after[i] = Num(0)

Records == Len(df)
Entities == Cardinality(unique_meters(df))
Missing == Cardinality({i \in DOMAIN df : df[i].consumption = NaN})
Negative == Cardinality({i \in DOMAIN df : df[i].consumption # NaN /\ df[i].consumption[1] < 0})
Duplicate ==
    Cardinality({i \in DOMAIN df :
        \E j \in DOMAIN df : j < i /\ df[j].meter_id = df[i].meter_id
                                   /\ df[j].date = df[i].date})
Insufficient ==
    Cardinality({m \in unique_meters(df) :
        Cardinality({i \in DOMAIN df : df[i].meter_id = m}) < 30})

SmallerOf(a, b) == IF a < b THEN a ELSE b

\* Records * Entities times 100 - min(missing%, 30) - min(2 negative%, 20)
\*   - min(5 duplicate%, 15) - min(insufficient%, 10)
ScaledScore ==
    100 * Records * Entities
      - SmallerOf(100 * Missing * Entities, 30 * Records * Entities)
      - SmallerOf(200 * Negative * Entities, 20 * Records * Entities)
      - SmallerOf(500 * Duplicate * Entities, 15 * Records * Entities)
      - SmallerOf(100 * Insufficient * Records, 10 * Records * Entities)

\* C10: the overall_quality_score of a table is max(0, 100 - min(missing%, 30)
\* - min(2 x negative%, 20) - min(5 x duplicate%, 15) - min(insufficient%, 10)),
\* the first three percentages over the records and the last over the
\* entities, insufficient meaning fewer than 30 records.
C10_QualityScoreFormula ==
    Called("validate_data_quality")
        => LET score == pre_result.ret.report.overall_quality_score
           IN  score[1] * Records * Entities
                  = score[2] * (IF ScaledScore < 0 THEN 0 ELSE ScaledScore)

\* a table scored with every kind of deduction, those for missing and negative
\* readings below their caps
C10_Witness ==
    /\ Called("validate_data_quality")
    /\ Missing > 0 /\ 100 * Missing < 30 * Records
    /\ Negative > 0 /\ 200 * Negative < 20 * Records
    /\ Duplicate > 0
    /\ Insufficient > 0 /\ Insufficient < Entities

\* the last call was preprocess_pipeline and it returned
PipelineReturned ==
    /\ pre_result # NoCall
    /\ pre_result.op = "preprocess_pipeline"
    /\ pre_result.ret.status = "ok"

\* C27: preprocess_pipeline checks the quality of the unmodified input, then
\* imputes, then caps outliers, then checks the quality of the table it
\* returns; quality_score_improvement is the final score minus the initial
\* one, and the final quality report describes exactly the returned table.
C27_PipelineOrder ==
    PipelineReturned
        => /\ pre_result.ret.report.initial_quality = validate_data_quality(df)
           /\ pre_result.ret.report.final_quality
                 = validate_data_quality(pre_result.ret.df)
           /\ pre_result.ret.report.improvement.quality_score_improvement
                 = RSub(validate_data_quality(pre_result.ret.df).overall_quality_score,
                        validate_data_quality(df).overall_quality_score)
           /\ pre_result.outlier_method # "isolation_forest"
                 => pre_result.ret.df
                       = detect_and_remove_outliers(
                             impute(df, pre_result.missing_method),
                             pre_result.outlier_method, DefaultThreshold, NoForest,
                             preprocessing_stats).df

\* a pipeline run whose outlier step changed what the quality check counts:
\* the final report differs from the one of the imputed table
C27_Witness ==
    /\ PipelineReturned
    /\ pre_result.ret.report.final_quality
          # validate_data_quality(impute(df, pre_result.missing_method))
    /\ pre_result.ret.report.initial_quality # pre_result.ret.report.final_quality

\* C28: the quality score after cleaning is never lower than the score
\* before it: quality_score_improvement >= 0 for every input.
C28_ScoreNeverDrops ==
    PipelineReturned
        => ~RLess(pre_result.ret.report.improvement.quality_score_improvement, Num(0))

(***************************************************************************)
(* Claims about the class balancer                                         *)
(***************************************************************************)
\* the last call was balance_dataset with a synthetic or combined method
SyntheticCall ==
    /\ balance_result # NoCall
    /\ balance_result.method \in SyntheticMethods

\* ... and the sampler could not be used: random_oversample took over
FellBack ==
    /\ SyntheticCall
    /\ \/ ~labels.imblearn
       \/ balance_result.sampler = "fails"
       \/ sampler_must_fail(labels, balance_result.method)

\* the last call was balance_dataset with this random method and it returned
RandomCallReturned(call, method) ==
    /\ call # NoCall
    /\ call.method = method
    /\ call.ret.status = "ok"

\* C11: whenever balance_dataset is called with a synthetic or combined
\* method and the call falls back to random oversampling, the 'method' field
\* of the returned report names random oversampling, never the method that
\* was requested.
C11_ReportNamesFallback ==
    (FellBack /\ balance_result.ret.status = "ok")
        => /\ balance_result.ret.balancing_method = "random_oversample"
           /\ balance_result.ret.report.method
                 \in {"random_oversample", "random_over"}

\* C12: for any label vector, balance_dataset with a synthetic method whose
\* minority count is below k_neighbors + 1, or whose implementation is
\* unavailable or fails, completes without raising and returns the result of
\* random oversampling.
C12_FallbackNeverFatal ==
    FellBack
        => /\ balance_result.ret.status = "ok"
           /\ balance_result.ret.balancing_method = "random_oversample"
           /\ balance_result.ret.y_balanced =
                 [zeros |-> labels.zeros,
                  ones |-> labels.zeros]

\* floor(M * r / (1 - r)) for the ratio r = n/d
FloorOfOdds(M, r) == (M * r[1]) \div (r[2] - r[1])

\* C13 as stated: after random_over with target ratio r on labels with M
\* majority samples the majority count is still M, the minority count is
\* floor(M * r / (1 - r)), and the total is the sum of the two counts.
C13_MinorityIsFloor ==
    RandomCallReturned(balance_result, "random_over")
        => /\ balance_result.ret.y_balanced.zeros = labels.zeros
           /\ balance_result.ret.y_balanced.ones
                 = FloorOfOdds(labels.zeros, balance_result.target_ratio)
           /\ balance_result.ret.report.balanced_distribution.total_samples
                 = balance_result.ret.y_balanced.zeros
                     + balance_result.ret.y_balanced.ones

\* C13 amended: after random_over with target ratio r on labels with M rows
\* of class 0, the count of class 0 is still M, the total is the sum of the
\* two counts, and the count of class 1 is floor(M * r / (1 - r)) or one less
\* than it; it is exactly the floor when r is 0.25 or 0.5.
C13_MinorityIsFloorOrOneLess ==
    RandomCallReturned(balance_result, "random_over")
        => /\ balance_result.ret.y_balanced.zeros = labels.zeros
           /\ balance_result.ret.y_balanced.ones
                 \in {FloorOfOdds(labels.zeros, balance_result.target_ratio),
                      FloorOfOdds(labels.zeros, balance_result.target_ratio) - 1}
           /\ balance_result.target_ratio \in {<<1, 4>>, <<1, 2>>}
                 => balance_result.ret.y_balanced.ones
                       = FloorOfOdds(labels.zeros, balance_result.target_ratio)
           /\ balance_result.ret.report.balanced_distribution.total_samples
                 = balance_result.ret.y_balanced.zeros
                     + balance_result.ret.y_balanced.ones
           /\ balance_result.ret.report.sample_change.balanced_samples
                 = labels.zeros + balance_result.ret.y_balanced.ones

\* random_over with ratio 0.6 on four rows of class 0 returned: class 1 has
\* five rows where floor(4 * 0.6 / 0.4) is six
C13_Witness ==
    /\ RandomCallReturned(balance_result, "random_over")
    /\ balance_result.target_ratio = <<3, 5>>
    /\ labels.zeros = 4
    /\ labels.ones = 1
    /\ balance_result.ret.y_balanced = [zeros |-> 4, ones |-> 5]

\* the share of class 1 in the output of `later` is at least that of `earlier`
ProportionNotLower(earlier, later) ==
    later.ones * (earlier.zeros + earlier.ones)
        >= earlier.ones * (later.zeros + later.ones)

\* C14: for random_over and random_under on the same input and two target
\* ratios r1 < r2, the minority proportion of the balanced output for r2 is
\* at least the one for r1 (whichever of the two calls came first).
C14_ProportionMonotone ==
    \A method \in RandomMethods :
        (/\ RandomCallReturned(previous_balance, method)
         /\ RandomCallReturned(balance_result, method))
            => /\ RLess(previous_balance.target_ratio, balance_result.target_ratio)
                    => ProportionNotLower(previous_balance.ret.y_balanced,
                                          balance_result.ret.y_balanced)
               /\ RLess(balance_result.target_ratio, previous_balance.target_ratio)
                    => ProportionNotLower(balance_result.ret.y_balanced,
                                          previous_balance.ret.y_balanced)

\* random_under with 0.25 and then with 0.6 on the same labels, and the share
\* of class 1 went up
C14_Witness ==
    /\ RandomCallReturned(previous_balance, "random_under")
    /\ RandomCallReturned(balance_result, "random_under")
    /\ previous_balance.target_ratio = <<1, 4>>
    /\ balance_result.target_ratio = <<3, 5>>
    /\ ~ProportionNotLower(balance_result.ret.y_balanced,
                           previous_balance.ret.y_balanced)

\* the class analyze_class_distribution reports as the minority (the one with
\* fewer rows) and the other one, when both are present and differ in size
minority_class(counts) == IF counts.ones < counts.zeros THEN "ones" ELSE "zeros"
majority_class(counts) == IF counts.ones < counts.zeros THEN "zeros" ELSE "ones"

\* both classes present and one of them smaller
Imbalanced(counts) ==
    /\ counts.zeros > 0
    /\ counts.ones > 0
    /\ counts.zeros # counts.ones

InputCounts == [zeros |-> labels.zeros, ones |-> labels.ones]

\* C26: random_over changes only the class that analyze_class_distribution
\* reports as the minority of the input: the majority keeps its count and the
\* minority count never decreases; random_under changes only the majority:
\* the minority keeps its count and the majority count never increases.
C26_OnlyReportedClassChanges ==
    /\ (RandomCallReturned(balance_result, "random_over") /\ Imbalanced(InputCounts))
          => /\ balance_result.ret.y_balanced[majority_class(InputCounts)]
                   = InputCounts[majority_class(InputCounts)]
             /\ balance_result.ret.y_balanced[minority_class(InputCounts)]
                   >= InputCounts[minority_class(InputCounts)]
    /\ (RandomCallReturned(balance_result, "random_under") /\ Imbalanced(InputCounts))
          => /\ balance_result.ret.y_balanced[minority_class(InputCounts)]
                   = InputCounts[minority_class(InputCounts)]
             /\ balance_result.ret.y_balanced[majority_class(InputCounts)]
                   <= InputCounts[majority_class(InputCounts)]

\* the rows random_oversample leaves when it is called with its own default
OversampleDefaultBalance == random_oversample(labels, OversampleDefaultRatio)

\* C29: when a synthetic or combined method falls back, the fallback
\* oversamples to ratio 0.5 (as many rows of class 1 as of class 0) whatever
\* target_ratio was passed to balance_dataset.
C29_FallbackIgnoresTargetRatio ==
    (FellBack /\ balance_result.ret.status = "ok")
        => /\ OversampleDefaultBalance.status = "ok"
           /\ balance_result.ret.y_balanced = OversampleDefaultBalance.y_balanced
           /\ balance_result.ret.y_balanced.ones = balance_result.ret.y_balanced.zeros
           /\ balance_result.ret.y_balanced.zeros = labels.zeros

\* a fallback asked for ratio 0.6 on four rows of class 0 and one of class 1:
\* four rows of each class came back, where ratio 0.6 would give five or six
C29_Witness ==
    /\ FellBack
    /\ balance_result.target_ratio = <<3, 5>>
    /\ labels.zeros = 4
    /\ labels.ones = 1
    /\ balance_result.ret.status = "ok"
    /\ balance_result.ret.y_balanced = [zeros |-> 4, ones |-> 4]

(***************************************************************************)
(* Claims about the validator                                              *)
(***************************************************************************)
\* comprehensive_validation returned the report of a table
Validated == validation # NoCall /\ is_frame(table)

\* the five results of the report, in the order they were computed
Checks ==
    <<validation.ret.validation_results.data_types,
      validation.ret.validation_results.value_ranges,
      validation.ret.validation_results.data_consistency,
      validation.ret.validation_results.time_series_continuity,
      validation.ret.validation_results.business_rules>>

RecordedErrors ==
    Len(Checks[1].errors) + Len(Checks[2].errors) + Len(Checks[3].errors)
        + Len(Checks[4].errors) + Len(Checks[5].errors)

RecordedWarnings ==
    Len(Checks[1].warnings) + Len(Checks[2].warnings) + Len(Checks[3].warnings)
        + Len(Checks[4].warnings) + Len(Checks[5].warnings)

\* C15: for every input table the validation_score of comprehensive_validation
\* equals max(0, 100 - 10 x total_errors - 2 x total_warnings) with the totals
\* summed over the five checks, lies in [0, 100], and is exactly 100 when no
\* check recorded an error or a warning.
C15_ScoreFormula ==
    Validated
        => /\ validation.ret.summary.total_errors = RecordedErrors
           /\ validation.ret.summary.total_warnings = RecordedWarnings
           /\ validation.ret.validation_score
                 = (IF 100 - 10 * RecordedErrors - 2 * RecordedWarnings < 0 THEN 0
                    ELSE 100 - 10 * RecordedErrors - 2 * RecordedWarnings)
           /\ validation.ret.validation_score \in 0..100
           /\ (RecordedErrors = 0 /\ RecordedWarnings = 0)
                 => validation.ret.validation_score = 100

\* a table validated without an error or a warning, and one with both
C15_Witness ==
    /\ Validated
    /\ RecordedErrors = 0
    /\ RecordedWarnings = 0
    /\ validation.ret.validation_score = 100

\* C16: overall_validity is the conjunction of the five checks' valid flags,
\* every check that records at least one error has valid = False, and hence a
\* report with 3 or more recorded errors has overall_validity = False.
C16_OverallValidity ==
    Validated
        => /\ validation.ret.overall_validity = (\A i \in 1..5 : Checks[i].valid)
           /\ \A i \in 1..5 : Checks[i].errors # <<>> => ~Checks[i].valid
           /\ RecordedErrors >= 3 => ~validation.ret.overall_validity

\* three errors or more were recorded, two of them by the consistency check
C16_Witness ==
    /\ Validated
    /\ RecordedErrors >= 3
    /\ Len(Checks[3].errors) = 2
    /\ ~validation.ret.overall_validity

RequiredColumns == {"meter_id", "consumption", "date"}

\* C17: for a table that lacks a required column (meter_id, consumption or
\* date) the types check records an error naming the missing column and
\* returns valid = False.
C17_MissingColumnReported ==
    Validated
        => \A column \in RequiredColumns \ Range(table.columns) :
              /\ ~Checks[1].valid
              /\ \E i \in DOMAIN Checks[1].errors : Checks[1].errors[i].column = column

\* the negative readings of the validated table, row by row
NegativeReadings ==
    SumTo([b \in DOMAIN table.meters |->
             table.meters[b].copies
               * SumTo([i \in DOMAIN table.meters[b].rows |->
                          IF /\ table.meters[b].rows[i].consumption \notin {NaN, Text}
                             /\ table.meters[b].rows[i].consumption[1] < 0
                          THEN table.meters[b].rows[i].days ELSE 0],
                       Len(table.meters[b].rows))],
          Len(table.meters))

HasNegativeReading == has(table, "consumption") /\ NegativeReadings > 0

NegativeCountReported ==
    \E i \in DOMAIN Checks[5].errors :
        /\ Checks[5].errors[i].text = "records with negative consumption"
        /\ Checks[5].errors[i].count = NegativeReadings

\* C18 as stated: for every table with at least one negative consumption
\* reading the business-rules check records an error whose count is the number
\* of negative readings and returns valid = False, and comprehensive_validation
\* returns overall_validity = False.
C18_NegativeCounted ==
    (Validated /\ HasNegativeReading)
        => /\ NegativeCountReported
           /\ ~Checks[5].valid
           /\ ~validation.ret.overall_validity

\* C18 amended: for every table with at least one negative consumption
\* reading the business-rules check returns valid = False and the report has
\* overall_validity = False; the check records the error with the number of
\* negative readings when the consumption column is numeric, and the
\* exception of the comparison as its only error when the column holds a
\* string.
C18_NegativeInvalid ==
    (Validated /\ HasNegativeReading)
        => /\ ~Checks[5].valid
           /\ ~validation.ret.overall_validity
           /\ is_numeric_dtype(table) => NegativeCountReported
           /\ ~is_numeric_dtype(table)
                 => Checks[5].errors = <<Message("TypeError", "consumption", 0)>>

\* thirty-one rows read -5 and one more reads -5: 32 negative readings reported
C18_Witness ==
    /\ Validated
    /\ HasNegativeReading
    /\ NegativeReadings = LongRun + 1
    /\ NegativeCountReported
    /\ Cardinality(cells(table, "consumption")) = 1

\* the continuity check got as far as looking for gaps
GapsExamined ==
    /\ Validated
    /\ has(table, "meter_id") /\ has(table, "date")
    /\ ~unparseable_dates(table)

Continuity == validation.ret.validation_results.time_series_continuity

\* the counts over every meter of the table
ExactGaps ==
    sampled_gaps(table, [b \in DOMAIN table.meters |-> table.meters[b].copies])

GapCounts == {"meters_with_gaps", "total_gaps", "large_gaps"}

\* C19 as stated: with at most 1000 entities every entity is examined and the
\* reported counts are exact; with N > 1000 entities exactly 1000 distinct
\* entities are examined, each reported count is the sampled count multiplied
\* by N / 1000, truncated, and the reported entities with gaps are at most N.
C19_ScaledByPopulation ==
    GapsExamined
        => /\ Continuity.sample_meters
                 = (IF total_meters(table) > 1000 THEN 1000 ELSE total_meters(table))
           /\ \A b \in DOMAIN validation.sample :
                 validation.sample[b] <= table.meters[b].copies
           /\ total_meters(table) <= 1000 => Continuity.continuity_issues = ExactGaps
           /\ total_meters(table) > 1000
                 => \A c \in GapCounts :
                       Continuity.continuity_issues[c]
                           = (Continuity.sampled[c] * total_meters(table)) \div 1000
           /\ Continuity.continuity_issues.meters_with_gaps <= total_meters(table)

\* C19 amended: as C19, but with N > 1000 entities each reported count is
\* the truncated product of the sampled count and N / 1000 or, only when that
\* product is a whole number, one less than it.
C19_ScaledByPopulationAsFloat ==
    GapsExamined
        => /\ Continuity.sample_meters
                 = (IF total_meters(table) > 1000 THEN 1000 ELSE total_meters(table))
           /\ \A b \in DOMAIN validation.sample :
                 validation.sample[b] <= table.meters[b].copies
           /\ total_meters(table) <= 1000 => Continuity.continuity_issues = ExactGaps
           /\ total_meters(table) > 1000
                 => \A c \in GapCounts :
                       \/ Continuity.continuity_issues[c]
                              = (Continuity.sampled[c] * total_meters(table)) \div 1000
                       \/ /\ (Continuity.sampled[c] * total_meters(table)) % 1000 = 0
                          /\ Continuity.continuity_issues[c]
                                = (Continuity.sampled[c] * total_meters(table)) \div 1000 - 1
           /\ Continuity.continuity_issues.meters_with_gaps <= total_meters(table)

\* 1001 meters, 1000 of them with a gap and all of these drawn: 1000 reported
C19_Witness ==
    /\ GapsExamined
    /\ total_meters(table) = 1001
    /\ Continuity.sample_meters = 1000
    /\ Continuity.sampled.meters_with_gaps = 1000
    /\ Continuity.continuity_issues.meters_with_gaps = 1000

\* check i cannot do its work on the table: nothing that is a DataFrame was
\* handed over, or (business rules) the readings cannot be compared with 0
InternalFailure(i) ==
    \/ ~is_frame(table)
    \/ i = 5 /\ has(table, "consumption") /\ ~is_numeric_dtype(table)

\* C30: none of the five checks nor comprehensive_validation ever raises.  A
\* check that fails internally returns a report with valid False and exactly
\* one error; comprehensive_validation failing internally returns
\* overall_validity False, total_errors 1 and validation_score 0.
C30_FailuresBecomeReports ==
    validation # NoCall
        => /\ \A i \in 1..5 :
                 /\ {"valid", "errors", "warnings"} \subseteq DOMAIN validation.checks[i]
                 /\ InternalFailure(i)
                       => /\ validation.checks[i].valid = FALSE
                          /\ Len(validation.checks[i].errors) = 1
           /\ {"overall_validity", "summary", "validation_score"}
                 \subseteq DOMAIN validation.ret
           /\ ~is_frame(table)
                 => /\ validation.ret.overall_validity = FALSE
                    /\ validation.ret.summary.total_errors = 1
                    /\ validation.ret.validation_score = 0

\* None was handed over: each check caught its own failure, and
\* comprehensive_validation caught the failure of len(df)
C30_Witness ==
    /\ validation # NoCall
    /\ table = NotAFrame
    /\ \A i \in 1..5 : validation.checks[i].errors
                            = <<Message("AttributeError", "", 0)>>
    /\ validation.ret.validation_score = 0
    /\ validation.ret.validation_results = <<>>

(***************************************************************************)
(* Claims about the feature engineer                                       *)
(***************************************************************************)
\* a training table of two meters with more than a year of readings each
TrainingTable ==
    <<[first |-> 0, days |-> YearDays, step |-> 1,
       monday |-> 4, weekday |-> 2, weekend |-> 0],
      [first |-> 0, days |-> YearDays + 35, step |-> 1,
       monday |-> 3, weekday |-> 3, weekend |-> 3]>>

\* C20: for every single-entity series with at least 30 daily observations
\* (the 90-day serving window, whatever weekdays and months it covers)
\* combine_all_features succeeds and returns exactly one row whose ordered
\* column list is the one produced for a multi-entity training table.
C20_SingleEntitySchema ==
    (/\ feature_result # NoCall
     /\ feature_result.op = "combine_all_features"
     /\ Len(feature_df) = 1
     /\ feature_df[1].step = 1
     /\ feature_df[1].days >= 30)
        => /\ feature_result.ret.status = "ok"
           /\ feature_result.ret.rows = 1
           /\ combine_all_features(TrainingTable, feature_result.tsfresh).status = "ok"
           /\ feature_result.ret.columns
                 = combine_all_features(TrainingTable, feature_result.tsfresh).columns

\* prepare_meter_features was run for the one meter of the table
Prepared ==
    /\ feature_result # NoCall
    /\ feature_result.op = "prepare_meter_features"

\* the observations the call has to work on
Observations ==
    IF feature_result.source = "request" THEN feature_df[1].days
    ELSE recent(feature_df[1], feature_result.today).days

\* C21: serving-time feature preparation for one entity ends in an error and
\* yields no feature vector whenever the entity's series has fewer than 30
\* observations, both when it is read from storage and when it is supplied
\* with the request.
C21_ShortHistoryIsError ==
    (Prepared /\ (feature_df[1].days < MinPatternRows
                    \/ Observations < MinPatternRows))
        => /\ feature_result.ret.status = "error"
           /\ "features" \notin DOMAIN feature_result.ret

\* 29 readings supplied with the request that cover every weekday and every
\* month: the temporal block works, the merge of the empty pattern block fails
C21_Witness ==
    /\ Prepared
    /\ feature_result.source = "request"
    /\ feature_df[1].days = MinPatternRows - 1
    /\ ~create_temporal_features_raises(feature_df)
    /\ feature_result.ret.status = "error"

\* combine_all_features was run on the table
Combined ==
    /\ feature_result # NoCall
    /\ feature_result.op = "combine_all_features"

\* C22: when tsfresh is not installed, or is installed and fails during the
\* extraction, combine_all_features completes without error and returns
\* exactly the statistical, temporal and pattern columns for every entity.
C22_DegradesGracefully ==
    (Combined /\ feature_result.tsfresh \in {"missing", "fails"})
        => /\ feature_result.ret.status = "ok"
           /\ feature_result.ret.rows = Len(feature_df)
           /\ feature_result.ret.columns
                 = <<"meter_id">> \o stat_columns \o weekly_columns
                     \o monthly_columns \o weekend_columns
                     \o <<"temporal_weekend_weekday_ratio">> \o pattern_columns

\* two values are the same number, whether written as a root or not (no
\* value is negative here)
SameValue(a, b) == Squared(a) = Squared(b)

\* the weekend columns of meter m are what their names say
WeekendColumnsRight(row, s) ==
    /\ SameValue(row.temporal_weekday_mean, group_mean(group(s, 0)))
    /\ SameValue(row.temporal_weekday_std, group_std(group(s, 0)))
    /\ SameValue(row.temporal_weekend_mean, group_mean(group(s, 1)))
    /\ SameValue(row.temporal_weekend_std, group_std(group(s, 1)))
    /\ SameValue(row.temporal_weekend_weekday_ratio.num, group_mean(group(s, 1)))
    /\ SameValue(row.temporal_weekend_weekday_ratio.den, group_mean(group(s, 0)))

\* C24: for every entity with weekday and weekend readings,
\* temporal_weekday_mean and temporal_weekday_std are the mean and the
\* standard deviation of its Monday-Friday readings, temporal_weekend_mean
\* and temporal_weekend_std those of its Saturday-Sunday readings, and the
\* ratio is the weekend mean divided by the weekday mean.
C24_WeekendColumns ==
    (Combined /\ feature_result.ret.status = "ok")
        => \A m \in DOMAIN feature_df :
              (group(feature_df[m], 0).count > 0 /\ group(feature_df[m], 1).count > 0)
                 => WeekendColumnsRight(feature_result.ret.features[m], feature_df[m])

\* the readings of a series that are 0
ZeroReadings(s) == Cardinality({d \in series_dates(s) : reading(s, d) = 0})

ZeroColumnsExact(row, s) ==
    /\ row.pattern_zero_days = Num(ZeroReadings(s))
    /\ row.pattern_zero_ratio = Rat(ZeroReadings(s), s.days)

\* C25 as stated: for every entity of the table, whatever its number of
\* readings, pattern_zero_days is the number of its readings equal to 0 and
\* pattern_zero_ratio that count divided by its number of readings.
C25_ZeroDaysForEveryEntity ==
    (Combined /\ feature_result.ret.status = "ok")
        => \A m \in DOMAIN feature_df :
              ZeroColumnsExact(feature_result.ret.features[m], feature_df[m])

\* C25 amended: for every entity with at least 30 readings pattern_zero_days
\* is the number of its readings equal to 0 and pattern_zero_ratio that count
\* divided by its number of readings; for an entity with fewer than 30
\* readings both are 0.
C25_ZeroDaysFromThirtyReadings ==
    (Combined /\ feature_result.ret.status = "ok")
        => \A m \in DOMAIN feature_df :
              /\ feature_df[m].days >= MinPatternRows
                    => ZeroColumnsExact(feature_result.ret.features[m], feature_df[m])
              /\ feature_df[m].days < MinPatternRows
                    => /\ feature_result.ret.features[m].pattern_zero_days = Num(0)
                       /\ feature_result.ret.features[m].pattern_zero_ratio = Num(0)

\* a table of a meter with a year of readings, 104 of them 0, and a meter
\* with a week of readings, two of them 0: 104 and 0 zero days are returned
C25_Witness ==
    /\ Combined
    /\ feature_result.ret.status = "ok"
    /\ Len(feature_df) = 2
    /\ feature_df[1].days = YearDays
    /\ ZeroReadings(feature_df[1]) = 104
    /\ feature_result.ret.features[1].pattern_zero_days = Num(104)
    /\ feature_df[2].days = 7
    /\ ZeroReadings(feature_df[2]) = 2
    /\ feature_result.ret.features[2].pattern_zero_days = Num(0)

(***************************************************************************)
(* Claims about the prediction routes                                      *)
(***************************************************************************)
\* the batch request was answered, one way or the other
BatchEnded == batch # NoCall /\ batch.state # "collecting"

\* the meter of task i has the history serving needs: at least 30 stored
\* readings in the last 90 days
SufficientHistory(i) ==
    recent(feature_df[batch.meter_ids[i]], batch.today).days >= MinPatternRows

\* the counters of the response add up to the number of requested meters
BatchAccounted ==
    /\ batch.data.total_meters = Len(batch.meter_ids)
    /\ batch.data.successful_predictions + batch.data.failed_predictions
          = Len(batch.meter_ids)
    /\ batch.data.successful_predictions = Len(batch.data.predictions)

\* C23: in a batch over meters of the database the failure of one meter
\* (insufficient history, exception, timeout) never aborts the batch: the
\* response is returned, the prediction of every other meter (sufficient
\* history, not timed out) is in it, and successful_predictions +
\* failed_predictions is the number of requested meters.
C23_FailuresIsolated ==
    (BatchEnded /\ batch.state # "not_found")
        => /\ batch.state = "returned"
           /\ BatchAccounted
           /\ \A i \in DOMAIN batch.meter_ids :
                 (SufficientHistory(i) /\ batch.collected[i] # "timeout")
                    => \E k \in DOMAIN batch.data.predictions :
                          batch.data.predictions[k] = batch.meter_ids[i]

\* what does hold: a batch over meters of the database is always answered,
\* and its counters add up
BatchAnswered ==
    (BatchEnded /\ batch.state # "not_found")
        => batch.state = "returned" /\ BatchAccounted

====
